---- MODULE Spec2Model ----
(***************************************************************************)
(* A model of the Supabase security audit tool: the credential decoder,    *)
(* the OpenAPI catalog parser, the read-only access prober driven by       *)
(* App.runAudit, and the risk engine (issues, score, remediations).        *)
(*                                                                         *)
(* JavaScript values are records tagged by the field k ("undefined",       *)
(* "null", "bool", "num", "str", "obj", ...).  A JavaScript string is a    *)
(* sequence of tokens (atomic pieces of text), so that split, includes,    *)
(* startsWith, replace and regular-expression tests are computed on the    *)
(* text instead of being assumed.                                          *)
(***************************************************************************)
EXTENDS Integers, Sequences, FiniteSets, TLC

VARIABLES call, ret, pc, locals, requests, currentReport, screen, detector

vars == <<call, ret, pc, locals, requests, currentReport, screen, detector>>

(***************************************************************************)
(* JavaScript values                                                       *)
(***************************************************************************)
JUndef == [k |-> "undefined"]
JNull == [k |-> "null"]
JBool(b) == [k |-> "bool", b |-> b]
JNum(n) == [k |-> "num", n |-> n]
JStr(s) == [k |-> "str", s |-> s]
JObj(f) == [k |-> "obj", f |-> f]
JDate(ms) == [k |-> "date", ms |-> ms]
Throw(msg) == [k |-> "throw", msg |-> msg]

\* ToBoolean: undefined, null, false, 0 and "" are falsy.
Truthy(v) ==
    CASE v.k = "undefined" -> FALSE
      [] v.k = "null" -> FALSE
      [] v.k = "bool" -> v.b
      [] v.k = "num" -> v.n # 0
      [] v.k = "str" -> v.s # <<>>
      [] OTHER -> TRUE

\* v.name for a value that is neither null nor undefined.
GetProp(v, name) ==
    IF v.k = "obj" /\ name \in DOMAIN v.f THEN v.f[name] ELSE JUndef

\* a || b
OrElse(a, b) == IF Truthy(a) THEN a ELSE b

(***************************************************************************)
(* Strings as token sequences                                              *)
(***************************************************************************)
RECURSIVE SplitFrom(_, _, _, _)
SplitFrom(s, sep, i, cur) ==
    IF i > Len(s) THEN <<cur>>
    ELSE IF s[i] = sep THEN <<cur>> \o SplitFrom(s, sep, i + 1, <<>>)
    ELSE SplitFrom(s, sep, i + 1, Append(cur, s[i]))

\* s.split(sep): always at least one part, the empty string included.
Split(s, sep) == SplitFrom(s, sep, 1, <<>>)

RECURSIVE JoinWith(_, _)
JoinWith(parts, sep) ==
    IF Len(parts) = 0 THEN <<>>
    ELSE IF Len(parts) = 1 THEN parts[1]
    ELSE parts[1] \o <<sep>> \o JoinWith(Tail(parts), sep)

\* s.includes(tok) / regular-expression test for one literal token.
Includes(s, tok) == \E i \in 1..Len(s) : s[i] = tok

\* s.startsWith(prefix)
StartsWith(s, prefix) ==
    Len(s) >= Len(prefix) /\ SubSeq(s, 1, Len(prefix)) = prefix

(***************************************************************************)
(* Analyzer.decodeJWT                                                      *)
(***************************************************************************)
\* atob on one base64 segment: the decoded text, or an exception.
Atob(part) ==
    IF part = <<>> THEN JStr(<<>>)
    ELSE IF Len(part) # 1 THEN Throw(<<"The string to be decoded is not correctly encoded.">>)
    ELSE CASE part[1] = "e30" -> JStr(<<"{}">>)
           [] part[1] = "eyJhbGciOiJIUzI1NiJ9" -> JStr(<<"{\"alg\":\"HS256\"}">>)
           [] part[1] = "eyJyb2xlIjoic2VydmljZV9yb2xlIn0" -> JStr(<<"{\"role\":\"service_role\"}">>)
           [] part[1] = "eyJyb2xlIjoiIn0" -> JStr(<<"{\"role\":\"\"}">>)
           [] part[1] = "eyJpc3MiOjEyM30" -> JStr(<<"{\"iss\":123}">>)
           [] part[1] = "eyJyb2xlIjoiYW5vbiIsImlzcyI6Imh0dHBzOi8vYWJjLnN1cGFiYXNlLmNvL2F1dGgvdjEiLCJleHAiOjIwMH0"
                -> JStr(<<"{\"role\":\"anon\",\"iss\":\"https://abc.supabase.co/auth/v1\",\"exp\":200}">>)
           [] part[1] = "bnVsbA" -> JStr(<<"null">>)
           [] part[1] = "eA" -> JStr(<<"x">>)
           [] OTHER -> Throw(<<"The string to be decoded is not correctly encoded.">>)

\* JSON.parse on a decoded text: the value, or a SyntaxError.
JSONParse(text) ==
    IF text = <<>> THEN Throw(<<"Unexpected end of JSON input">>)
    ELSE CASE text[1] = "{}" -> JObj(<<>>)
           [] text[1] = "{\"alg\":\"HS256\"}" -> JObj([alg |-> JStr(<<"HS256">>)])
           [] text[1] = "{\"role\":\"service_role\"}" ->
                JObj([role |-> JStr(<<"service_role">>)])
           [] text[1] = "{\"role\":\"\"}" -> JObj([role |-> JStr(<<>>)])
           [] text[1] = "{\"iss\":123}" -> JObj([iss |-> JNum(123)])
           [] text[1] = "{\"role\":\"anon\",\"iss\":\"https://abc.supabase.co/auth/v1\",\"exp\":200}" ->
                JObj([role |-> JStr(<<"anon">>),
                      iss |-> JStr(<<"https://", "abc", ".supabase.co", "/auth/v1">>),
                      exp |-> JNum(200)])
           [] text[1] = "null" -> JNull
           [] OTHER -> Throw(<<"Unexpected token in JSON">>)

IsThrow(v) == v.k = "throw"

\* JSON.parse(atob(part))
ParseSegment(part) ==
    LET text == Atob(part) IN
    IF IsThrow(text) THEN text ELSE JSONParse(text.s)

\* iss.match(/https:\/\/([^.]+)\.supabase\.co/): the captured project ref or null.
IssuerMatch(s) ==
    IF \E i \in 1..Len(s) : i + 2 <= Len(s) /\ s[i] = "https://" /\ s[i + 2] = ".supabase.co"
    THEN LET i == CHOOSE j \in 1..Len(s) :
                      j + 2 <= Len(s) /\ s[j] = "https://" /\ s[j + 2] = ".supabase.co"
         IN JStr(<<s[i + 1]>>)
    ELSE JNull

DecodeResult0 ==
    [valid |-> FALSE, header |-> JNull, payload |-> JNull, expiresAt |-> JNull,
     isExpired |-> FALSE, role |-> JNull, issuer |-> JNull, projectRef |-> JNull,
     error |-> JNull]

DecodeError(r, msg) == [r EXCEPT !.error = JStr(<<"Failed to decode JWT: ">> \o msg)]

\* The claims read from a payload that was parsed (lines 469-485).
DecodeClaims(r, payload, now) ==
    IF payload.k \in {"null", "undefined"}
    THEN DecodeError(r, <<"Cannot read properties of null (reading 'role')">>)
    ELSE
    LET iss == GetProp(payload, "iss")
        exp == GetProp(payload, "exp")
        r1 == [r EXCEPT !.role = OrElse(GetProp(payload, "role"), JStr(<<"anon">>)),
                        !.issuer = OrElse(iss, JNull)]
    IN
    IF Truthy(iss) /\ iss.k # "str"
    THEN DecodeError(r1, <<"payload.iss.match is not a function">>)
    ELSE
    LET r2 == IF Truthy(iss) /\ IssuerMatch(iss.s).k = "str"
              THEN [r1 EXCEPT !.projectRef = IssuerMatch(iss.s)]
              ELSE r1
    IN
    IF Truthy(exp) /\ exp.k = "num"
    THEN [r2 EXCEPT !.expiresAt = JDate(exp.n * 1000),
                    !.isExpired = exp.n * 1000 < now]
    ELSE r2

DecodeJWT3(parts, r, now) ==
    LET header == ParseSegment(parts[1]) IN
    IF IsThrow(header) THEN DecodeError(r, header.msg)
    ELSE
    LET r1 == [r EXCEPT !.header = header]
        payload == ParseSegment(parts[2])
    IN
    IF IsThrow(payload) THEN DecodeError(r1, payload.msg)
    ELSE DecodeClaims([r1 EXCEPT !.payload = payload, !.valid = TRUE], payload, now)

\* A variant of the length test that lets tokens with extra segments through.
FewerThanThreeParts(parts) == Len(parts) < 3

\* parts.length !== 3
WrongPartCount(parts) == Len(parts) # 3

DecodeJWT(token, now) ==
    IF token.k # "str"
    THEN DecodeError(DecodeResult0, <<"token.split is not a function">>)
    ELSE
    LET parts == Split(token.s, ".") IN
    IF WrongPartCount(parts)
    THEN [DecodeResult0 EXCEPT !.error = JStr(<<"Invalid JWT format">>)]
    ELSE DecodeJWT3(parts, DecodeResult0, now)

(***************************************************************************)
(* Analyzer: per-entity analysis                                           *)
(***************************************************************************)
Ok(v) == [k |-> "ok", v |-> v]

\* Case folding of the names used here (the patterns carry the i flag).
Lower(tok) ==
    CASE tok = "Delete" -> "delete"
      [] tok = "Admin" -> "admin"
      [] tok = "Password" -> "password"
      [] tok = "POST" -> "post"
      [] OTHER -> tok

LowerStr(s) == [i \in 1..Len(s) |-> Lower(s[i])]

\* SENSITIVE_PATTERNS, in order: <<a>> is /a/i and <<a, b>> is /a_?b/i.
SENSITIVE_PATTERNS ==
    << <<"password">>, <<"passwd">>, <<"secret">>, <<"token">>, <<"api", "key">>,
       <<"apikey">>, <<"private", "key">>, <<"access", "key">>, <<"auth", "key">>,
       <<"ssn">>, <<"social", "security">>, <<"credit", "card">>, <<"card", "number">>,
       <<"cvv">>, <<"cvc">>, <<"pin">>, <<"encryption", "key">>, <<"salt">>, <<"hash">>,
       <<"credential">> >>

\* pattern.test(name)
PatternTest(p, name) ==
    LET n == LowerStr(name) IN
    IF Len(p) = 1 THEN Includes(n, p[1])
    ELSE \E i \in 1..Len(n) :
            /\ n[i] = p[1]
            /\ \/ i + 1 <= Len(n) /\ n[i + 1] = p[2]
               \/ i + 2 <= Len(n) /\ n[i + 1] = "_" /\ n[i + 2] = p[2]

\* The first pattern of a list that matches, 0 when none does.
FirstMatch(patterns, name) ==
    IF \E j \in 1..Len(patterns) : PatternTest(patterns[j], name)
    THEN CHOOSE j \in 1..Len(patterns) :
            /\ PatternTest(patterns[j], name)
            /\ \A h \in 1..(j - 1) : ~PatternTest(patterns[h], name)
    ELSE 0

RECURSIVE DetectSensitiveColumns(_)
DetectSensitiveColumns(columns) ==
    IF columns = <<>> THEN <<>>
    ELSE LET col == Head(columns)
             j == FirstMatch(SENSITIVE_PATTERNS, col.name)
         IN (IF j > 0
             THEN <<[column |-> col.name, pattern |-> SENSITIVE_PATTERNS[j], type |-> col.type]>>
             ELSE <<>>) \o DetectSensitiveColumns(Tail(columns))

\* accessResults?.name
OptProp(v, name) == IF v.k \in {"undefined", "null"} THEN JUndef ELSE GetProp(v, name)

LARGE_EXPOSURE_ROWS == 10000

SensitiveColumnsIssue(table) ==
    LET sensitiveColumns == DetectSensitiveColumns(table.columns) IN
    IF Len(sensitiveColumns) > 0
    THEN <<[severity |-> "medium", type |-> "sensitive_columns", table |-> table.name,
            details |-> sensitiveColumns]>>
    ELSE <<>>

\* A variant of the facet test that takes any truthy facet (also 'unknown') as allowed.
FacetTruthy(accessResults, facet) == Truthy(OptProp(accessResults, facet))

\* accessResults?.facet === true
FacetAllowed(accessResults, facet) == OptProp(accessResults, facet) = JBool(TRUE)

WriteIssues(table, accessResults) ==
    (IF FacetAllowed(accessResults, "insert")
     THEN <<[severity |-> "high", type |-> "unrestricted_insert", table |-> table.name]>>
     ELSE <<>>)
    \o (IF FacetAllowed(accessResults, "update")
        THEN <<[severity |-> "high", type |-> "unrestricted_update", table |-> table.name]>>
        ELSE <<>>)
    \o (IF FacetAllowed(accessResults, "delete")
        THEN <<[severity |-> "critical", type |-> "unrestricted_delete", table |-> table.name]>>
        ELSE <<>>)

\* A variant of the exposure test that flags every table with a positive count.
AnyCountedExposure(rowCount) == rowCount.k = "num" /\ rowCount.n > 0

\* accessResults.rowCount > 10000 (false for undefined and null)
LargeExposure(rowCount) == rowCount.k = "num" /\ rowCount.n > LARGE_EXPOSURE_ROWS

\* Returns Ok(issues), or the TypeError of line 722 when accessResults is undefined:
\* there accessResults?.rowCount !== null holds and accessResults.rowCount is read.
AnalyzeTableSecurity(table, accessResults) ==
    LET issues == SensitiveColumnsIssue(table) \o WriteIssues(table, accessResults) IN
    IF OptProp(accessResults, "rowCount") # JNull
    THEN IF accessResults.k \in {"undefined", "null"}
         THEN Throw(<<"Cannot read properties of undefined (reading 'rowCount')">>)
         ELSE IF LargeExposure(GetProp(accessResults, "rowCount"))
              THEN Ok(issues \o <<[severity |-> "low", type |-> "large_exposure",
                                   table |-> table.name,
                                   count |-> GetProp(accessResults, "rowCount").n]>>)
              ELSE Ok(issues)
    ELSE Ok(issues)

\* sensitiveOps of analyzeFunctionSecurity, in order.
SENSITIVE_OPS ==
    << <<"delete">>, <<"drop">>, <<"truncate">>, <<"admin">>, <<"update">>, <<"insert">>,
       <<"create">> >>

\* The condition under which a function is examined at all (line 745).
FunctionExamined(testResults) == Truthy(OptProp(testResults, "accessible"))

AnalyzeFunctionSecurity(func, testResults) ==
    IF FunctionExamined(testResults) /\ FirstMatch(SENSITIVE_OPS, func.name) > 0
    THEN <<[severity |-> "medium", type |-> "sensitive_function", function |-> func.name]>>
    ELSE <<>>

\* bucket.name || bucket.id
BucketLabel(bucket) == OrElse(GetProp(bucket, "name"), GetProp(bucket, "id"))

AnalyzeBucketSecurity(bucket, accessResults) ==
    (IF Truthy(GetProp(bucket, "public")) \/ Truthy(OptProp(accessResults, "isPublic"))
     THEN <<[severity |-> "medium", type |-> "public_bucket", bucket |-> BucketLabel(bucket)]>>
     ELSE <<>>)
    \o (IF Truthy(OptProp(accessResults, "canList"))
        THEN <<[severity |-> "low", type |-> "bucket_listable", bucket |-> BucketLabel(bucket)]>>
        ELSE <<>>)

(***************************************************************************)
(* Analyzer.calculateRiskScore                                             *)
(***************************************************************************)
WEIGHT_CRITICAL == 25
WEIGHT_HIGH == 15
WEIGHT_MEDIUM == 8
WEIGHT_LOW == 3
SCORE_CAP == 100
LEVEL_CRITICAL == 75
LEVEL_HIGH == 50
LEVEL_MEDIUM == 25

\* weights[severity] || 0
Weight(severity) ==
    CASE severity = "critical" -> WEIGHT_CRITICAL
      [] severity = "high" -> WEIGHT_HIGH
      [] severity = "medium" -> WEIGHT_MEDIUM
      [] severity = "low" -> WEIGHT_LOW
      [] OTHER -> 0

RECURSIVE TotalScore(_)
TotalScore(issues) ==
    IF issues = <<>> THEN 0 ELSE Weight(Head(issues).severity) + TotalScore(Tail(issues))

RECURSIVE CountSeverity(_, _)
CountSeverity(issues, severity) ==
    IF issues = <<>> THEN 0
    ELSE (IF Head(issues).severity = severity THEN 1 ELSE 0)
         + CountSeverity(Tail(issues), severity)

Breakdown(issues) ==
    [critical |-> CountSeverity(issues, "critical"), high |-> CountSeverity(issues, "high"),
     medium |-> CountSeverity(issues, "medium"), low |-> CountSeverity(issues, "low")]

Min(a, b) == IF a < b THEN a ELSE b

\* A variant of the level rule that looks at the score only.
RiskLevelByScore(breakdown, normalizedScore) ==
    IF normalizedScore >= LEVEL_CRITICAL THEN "critical"
    ELSE IF normalizedScore >= LEVEL_HIGH THEN "high"
    ELSE IF normalizedScore >= LEVEL_MEDIUM THEN "medium"
    ELSE "low"

RiskLevel(breakdown, normalizedScore) ==
    IF breakdown.critical > 0 \/ normalizedScore >= LEVEL_CRITICAL THEN "critical"
    ELSE IF breakdown.high > 0 \/ normalizedScore >= LEVEL_HIGH THEN "high"
    ELSE IF breakdown.medium > 0 \/ normalizedScore >= LEVEL_MEDIUM THEN "medium"
    ELSE "low"

\* A variant of the normalisation without the cap.
UncappedScore(totalScore) == totalScore

NormalizedScore(totalScore) == Min(SCORE_CAP, totalScore)

CalculateRiskScore(issues) ==
    LET breakdown == Breakdown(issues)
        normalizedScore == NormalizedScore(TotalScore(issues))
    IN [score |-> normalizedScore, riskLevel |-> RiskLevel(breakdown, normalizedScore),
        breakdown |-> breakdown, totalIssues |-> Len(issues)]

(***************************************************************************)
(* Analyzer.parseOpenAPISpec                                               *)
(*                                                                         *)
(* An object whose key order matters is JEntries(e), e the sequence of its *)
(* [key, val] entries in insertion order (the order of Object.entries).    *)
(***************************************************************************)
JEntries(e) == [k |-> "obj", e |-> e]

\* obj.name on an entries object, undefined when absent.
EntryGet(obj, name) ==
    IF obj.k = "obj" /\ \E i \in 1..Len(obj.e) : obj.e[i].key = name
    THEN obj.e[CHOOSE i \in 1..Len(obj.e) : obj.e[i].key = name].val
    ELSE JUndef

\* path.replace(/^\//, '').replace(/\/$/, '')
TrimSlashes(path) ==
    LET a == IF path # <<>> /\ Head(path) = "/" THEN Tail(path) ELSE path IN
    IF a # <<>> /\ a[Len(a)] = "/" THEN SubSeq(a, 1, Len(a) - 1) ELSE a

RPC_PREFIX == <<"/", "rpc", "/">>

\* path.startsWith('/rpc/')
IsRpcPath(path) == StartsWith(path, RPC_PREFIX)

\* method.toUpperCase()
ToUpperCase(m) ==
    CASE m = "get" -> "GET"
      [] m = "post" -> "POST"
      [] m = "patch" -> "PATCH"
      [] m = "delete" -> "DELETE"
      [] m = "Get" -> "GET"
      [] m = "options" -> "OPTIONS"
      [] OTHER -> m

TABLE_METHODS == {"GET", "POST", "PATCH", "DELETE"}

RESERVED_PARAMS == {"select", "order", "limit", "offset", "on_conflict"}

\* The filter of lines 543-545 on one parameter declaration.
IsColumnParam(param) ==
    /\ param.in = "query"
    /\ param.name # <<>>
    /\ \A r \in RESERVED_PARAMS : ~StartsWith(param.name, <<r>>)

HasColumn(columns, name) == \E c \in 1..Len(columns) : columns[c].name = name

\* param.schema?.type || param.schema?.format || 'unknown'
ParamType(schema, default) ==
    OrElse(OrElse(OptProp(schema, "type"), OptProp(schema, "format")), JStr(<<default>>))

RECURSIVE ParamColumns(_, _, _)
ParamColumns(params, i, columns) ==
    IF i > Len(params) THEN columns
    ELSE IF IsColumnParam(params[i]) /\ ~HasColumn(columns, params[i].name)
         THEN ParamColumns(params, i + 1,
                  Append(columns, [name |-> params[i].name,
                                   type |-> ParamType(params[i].schema, "unknown"),
                                   format |-> OrElse(OptProp(params[i].schema, "format"), JNull)]))
         ELSE ParamColumns(params, i + 1, columns)

\* The loop over Object.entries(methods) (lines 531-559): Ok(table) or an exception.
RECURSIVE TableOperations(_, _, _)
TableOperations(entries, i, table) ==
    IF i > Len(entries) THEN Ok(table)
    ELSE LET op == ToUpperCase(entries[i].key)
             details == entries[i].val
         IN IF details.k \in {"null", "undefined"}
            THEN Throw(<<"Cannot read properties of null (reading 'description')">>)
            ELSE LET t1 == IF op \in TABLE_METHODS
                           THEN [table EXCEPT !.operations = Append(@, op)] ELSE table
                     params == GetProp(details, "parameters")
                     t2 == IF Truthy(params)
                           THEN [t1 EXCEPT !.columns = ParamColumns(params.v, 1, @)]
                           ELSE t1
                 IN TableOperations(entries, i + 1, t2)

\* Columns of spec.definitions[tableName].properties not found before (lines 562-575).
RECURSIVE DefinitionColumns(_, _, _, _)
DefinitionColumns(props, required, i, columns) ==
    IF i > Len(props) THEN columns
    ELSE IF HasColumn(columns, props[i].key)
         THEN DefinitionColumns(props, required, i + 1, columns)
         ELSE DefinitionColumns(props, required, i + 1,
                  Append(columns,
                         [name |-> props[i].key,
                          type |-> OrElse(GetProp(props[i].val, "type"), JStr(<<"unknown">>)),
                          format |-> OrElse(GetProp(props[i].val, "format"), JNull),
                          primaryKey |-> required.k = "arr"
                                         /\ \E r \in 1..Len(required.v) :
                                               required.v[r] = props[i].key]))

WithDefinitions(spec, table) ==
    LET def == OptProp(GetProp(spec, "definitions"), table.name) IN
    IF Truthy(def) /\ Truthy(GetProp(def, "properties"))
    THEN [table EXCEPT !.columns = DefinitionColumns(GetProp(def, "properties").e,
                                                     GetProp(def, "required"), 1, @)]
    ELSE table

\* The first loop (lines 511-580) over paths[i..]: Ok(tables) or an exception.
RECURSIVE ParseTables(_, _, _, _)
ParseTables(spec, paths, i, tables) ==
    IF i > Len(paths) THEN Ok(tables)
    ELSE LET path == paths[i].key
             methods == paths[i].val
             tableName == TrimSlashes(path)
         IN IF IsRpcPath(path) \/ tableName = <<>> \/ Includes(tableName, "/")
            THEN ParseTables(spec, paths, i + 1, tables)
            ELSE IF methods.k \in {"null", "undefined"}
            THEN Throw(<<"Cannot convert undefined or null to object">>)
            ELSE LET parsed == TableOperations(
                                   IF methods.k = "obj" THEN methods.e ELSE <<>>, 1,
                                   [name |-> tableName, columns |-> <<>>, operations |-> <<>>])
                 IN IF IsThrow(parsed) THEN parsed
                    ELSE LET table == WithDefinitions(spec, parsed.v) IN
                         ParseTables(spec, paths, i + 1,
                                     IF Len(table.operations) > 0
                                     THEN Append(tables, table) ELSE tables)

\* Body parameters of the function's operation (lines 603-617).
RECURSIVE BodyParameters(_, _)
BodyParameters(params, i) ==
    IF i > Len(params) THEN <<>>
    ELSE (IF params[i].in = "body" /\ Truthy(OptProp(params[i].schema, "properties"))
          THEN LET props == GetProp(params[i].schema, "properties").e
                   required == GetProp(params[i].schema, "required")
               IN [j \in 1..Len(props) |->
                     [name |-> props[j].key,
                      type |-> OrElse(OrElse(GetProp(props[j].val, "type"),
                                             GetProp(props[j].val, "format")), JStr(<<"any">>)),
                      required |-> required.k = "arr"
                                   /\ \E r \in 1..Len(required.v) : required.v[r] = props[j].key]]
          ELSE <<>>) \o BodyParameters(params, i + 1)

\* $ref.match(/\/([^/]+)$/): the text after the last slash, or null.
RefName(ref) ==
    IF Len(ref) >= 2 /\ ref[Len(ref) - 1] = "/" /\ ref[Len(ref)] # "/"
    THEN JStr(<<ref[Len(ref)]>>) ELSE JNull

\* The return type from responses['200'].schema (lines 620-636).
ReturnType(schema) ==
    IF ~Truthy(schema) THEN JStr(<<"void">>)
    ELSE IF Truthy(GetProp(schema, "$ref"))
    THEN OrElse(RefName(GetProp(schema, "$ref").s), JStr(<<"object">>))
    ELSE IF GetProp(schema, "type") = JStr(<<"array">>) /\ Truthy(GetProp(schema, "items"))
    THEN LET items == GetProp(schema, "items")
             itemType == IF Truthy(GetProp(items, "$ref"))
                         THEN OrElse(RefName(GetProp(items, "$ref").s), JStr(<<"object">>))
                         ELSE OrElse(GetProp(items, "type"), JStr(<<"any">>))
         IN JStr(itemType.s \o <<"[]">>)
    ELSE IF Truthy(GetProp(schema, "type")) THEN GetProp(schema, "type")
    ELSE JStr(<<"json">>)

\* path.replace('/rpc/', '') for a path that starts with /rpc/
FunctionName(path) == SubSeq(path, Len(RPC_PREFIX) + 1, Len(path))

\* The second loop (lines 583-639) over paths[i..]: Ok(functions) or an exception.
RECURSIVE ParseFunctions(_, _, _)
ParseFunctions(paths, i, functions) ==
    IF i > Len(paths) THEN Ok(functions)
    ELSE LET path == paths[i].key
             methods == paths[i].val
         IN IF ~IsRpcPath(path) THEN ParseFunctions(paths, i + 1, functions)
            ELSE IF methods.k \in {"null", "undefined"}
            THEN Throw(<<"Cannot read properties of null (reading 'post')">>)
            ELSE LET postMethod == OrElse(EntryGet(methods, "post"), EntryGet(methods, "get")) IN
                 IF ~Truthy(postMethod) THEN ParseFunctions(paths, i + 1, functions)
                 ELSE LET params == GetProp(postMethod, "parameters")
                          func == [name |-> FunctionName(path),
                                   parameters |-> IF Truthy(params)
                                                  THEN BodyParameters(params.v, 1) ELSE <<>>,
                                   returnType |-> ReturnType(GetProp(postMethod, "schema200"))]
                      IN ParseFunctions(paths, i + 1, Append(functions, func))

\* A variant of the operator below in which parsing consumes the paths of the document.
DocumentWithoutPaths(spec) ==
    IF spec.k = "obj" /\ "paths" \in DOMAIN spec.f
    THEN JObj([x \in DOMAIN spec.f \ {"paths"} |-> spec.f[x]]) ELSE spec

\* The document after parseOpenAPISpec returned or threw: lines 499-642 assign only to
\* result, table and func and to the arrays they hold, never to spec or a part of it.
DocumentAfterParse(spec) == spec

\* Ok([tables, functions]), or the exception that left parseOpenAPISpec.
ParseOpenAPISpec(spec) ==
    IF ~Truthy(spec) \/ ~Truthy(GetProp(spec, "paths"))
    THEN Ok([tables |-> <<>>, functions |-> <<>>])
    ELSE LET paths == GetProp(spec, "paths").e
             tables == ParseTables(spec, paths, 1, <<>>)
         IN IF IsThrow(tables) THEN tables
            ELSE LET functions == ParseFunctions(paths, 1, <<>>) IN
                 IF IsThrow(functions) THEN functions
                 ELSE Ok([tables |-> tables.v, functions |-> functions.v])

(***************************************************************************)
(* SupabaseClient: how each probe reads the outcome of its request.        *)
(* An outcome is Failed(msg) (fetch rejected) or a response.               *)
(***************************************************************************)
Failed(msg) == [k |-> "failed", msg |-> msg]

\* response.ok
ResponseOk(status) == status >= 200 /\ status <= 299

\* parseInt(text, 10) of the digit strings used here.
ParseInt(tok) ==
    CASE tok = "0" -> 0
      [] tok = "50" -> 50
      [] tok = "10000" -> 10000
      [] tok = "20000" -> 20000
      [] OTHER -> -1

IsDigits(tok) == ParseInt(tok) >= 0

\* contentRange.match(re)[1] for re = /\/(\d+|\*)/ (star TRUE) or /\/(\d+)/ (star FALSE):
\* the digits (or the star) after the first slash they follow, or null.
RangeTotal(contentRange, star) ==
    LET Hit(i) == /\ contentRange[i] = "/"
                  /\ i + 1 <= Len(contentRange)
                  /\ \/ IsDigits(contentRange[i + 1])
                     \/ star /\ contentRange[i + 1] = "*"
    IN IF \E i \in 1..Len(contentRange) : Hit(i)
       THEN LET i == CHOOSE j \in 1..Len(contentRange) :
                        Hit(j) /\ \A h \in 1..(j - 1) : ~Hit(h)
            IN JStr(<<contentRange[i + 1]>>)
       ELSE JNull

AccessResults0 ==
    JObj([select |-> JBool(FALSE), insert |-> JStr(<<"unknown">>),
          update |-> JStr(<<"unknown">>), delete |-> JStr(<<"unknown">>),
          rowCount |-> JNull, error |-> JNull])

RANGE_NOT_SATISFIABLE == 416

\* selectResponse.ok || selectResponse.status === 416
SelectAllowed(status) == ResponseOk(status) \/ status = RANGE_NOT_SATISFIABLE

\* The select probe of testTableAccess (lines 59-80).
AfterSelect(results, outcome) ==
    IF outcome.k = "failed" THEN [results EXCEPT !.f.select = JBool(FALSE)]
    ELSE LET r1 == [results EXCEPT !.f.select = JBool(SelectAllowed(outcome.status))]
             total == IF Truthy(outcome.contentRange)
                      THEN RangeTotal(outcome.contentRange.s, TRUE) ELSE JNull
         IN IF total.k = "str" /\ total.s # <<"*">>
            THEN [r1 EXCEPT !.f.rowCount = JNum(ParseInt(total.s[1]))]
            ELSE r1

\* allowHeader.toUpperCase()
UpperStr(s) == [i \in 1..Len(s) |-> ToUpperCase(s[i])]

\* headers.get('Allow') || headers.get('Access-Control-Allow-Methods') || ''
AllowHeader(outcome) == OrElse(OrElse(outcome.allow, outcome.acam), JStr(<<>>))

\* The capability probe of testTableAccess (lines 83-104).
AfterOptions(results, outcome) ==
    IF outcome.k = "failed"
    THEN [results EXCEPT !.f.error =
             JStr(<<"Could not determine write permissions (OPTIONS not supported)">>)]
    ELSE LET allowedMethods == UpperStr(AllowHeader(outcome).s) IN
         [results EXCEPT !.f.insert = JBool(Includes(allowedMethods, "POST")),
                         !.f.update = JBool(Includes(allowedMethods, "PATCH")),
                         !.f.delete = JBool(Includes(allowedMethods, "DELETE"))]

\* testTableAccess (lines 40-107) for the outcomes of its two requests.
TestTableAccess(selectOutcome, optionsOutcome) ==
    AfterOptions(AfterSelect(AccessResults0, selectOutcome), optionsOutcome)

PARTIAL_CONTENT == 206

\* The count a fetchTableRowCount response yields, or null (lines 342-351, 359-367);
\* the HEAD response also counts with status 206.
CountFromResponse(outcome, isHead) ==
    IF (ResponseOk(outcome.status) \/ (isHead /\ outcome.status = PARTIAL_CONTENT))
       /\ Truthy(outcome.contentRange)
       /\ RangeTotal(outcome.contentRange.s, FALSE).k = "str"
    THEN JNum(ParseInt(RangeTotal(outcome.contentRange.s, FALSE).s[1]))
    ELSE JNull

UNAUTHORIZED == 401
FORBIDDEN == 403
NOT_FOUND == 404

\* A variant of the reading below that reports a failed request as not found.
RpcResultFailureAsNotFound(outcome) ==
    IF outcome.k = "failed"
    THEN JObj([accessible |-> JBool(FALSE), requiresAuth |-> JStr(<<"unknown">>),
               error |-> JStr(outcome.msg), testResponse |-> JNull])
    ELSE JObj([accessible |-> JBool(outcome.status # NOT_FOUND),
               requiresAuth |-> IF outcome.status \in {UNAUTHORIZED, FORBIDDEN} THEN JBool(TRUE)
                                ELSE IF outcome.status = NOT_FOUND THEN JStr(<<"unknown">>)
                                ELSE JBool(FALSE),
               error |-> JNull, testResponse |-> JNum(outcome.status)])

\* testRPCFunction's reading of its one POST (lines 169-204).
RpcResult(outcome) ==
    IF outcome.k = "failed"
    THEN JObj([accessible |-> JBool(TRUE), requiresAuth |-> JStr(<<"unknown">>),
               error |-> JStr(outcome.msg), testResponse |-> JNull])
    ELSE JObj([accessible |-> JBool(outcome.status # NOT_FOUND),
               requiresAuth |-> IF outcome.status \in {UNAUTHORIZED, FORBIDDEN} THEN JBool(TRUE)
                                ELSE IF outcome.status = NOT_FOUND THEN JStr(<<"unknown">>)
                                ELSE JBool(FALSE),
               error |-> JNull, testResponse |-> JNum(outcome.status)])

BucketAccess0 ==
    JObj([canList |-> JBool(FALSE), canUpload |-> JStr(<<"unknown">>),
          canDelete |-> JStr(<<"unknown">>), isPublic |-> JBool(FALSE), fileCount |-> JNull])

BAD_REQUEST == 400

\* The list probe of testBucketAccess (lines 289-306).
AfterBucketList(result, outcome) ==
    IF outcome.k = "failed" \/ ~ResponseOk(outcome.status) THEN result
    ELSE [result EXCEPT !.f.canList = JBool(TRUE), !.f.fileCount = JNum(outcome.files)]

\* The public-read probe of testBucketAccess (lines 309-316).
AfterBucketPublic(result, outcome) ==
    IF outcome.k = "failed" THEN result
    ELSE [result EXCEPT !.f.isPublic =
             JBool(outcome.status # BAD_REQUEST /\ outcome.status # NOT_FOUND)]

(***************************************************************************)
(* What the audited project may answer                                     *)
(***************************************************************************)
Response(status, contentRange) ==
    [k |-> "response", status |-> status, contentRange |-> contentRange]

NetworkFailure == Failed(<<"Failed to fetch">>)

SelectOutcomes ==
    {NetworkFailure}
    \cup {Response(200, cr) : cr \in {JNull, JStr(<<"0-0", "/", "50">>),
                                      JStr(<<"0-0", "/", "20000">>), JStr(<<"*", "/", "*">>)}}
    \cup {Response(206, JStr(<<"0-0", "/", "10000">>)),
          Response(416, JStr(<<"*", "/", "0">>)),
          Response(401, JNull), Response(404, JNull),
          Response(403, JStr(<<"0-0", "/", "50">>))}

OptionsResponse(allow, acam) == [k |-> "response", allow |-> allow, acam |-> acam]

OptionsOutcomes ==
    {NetworkFailure,
     OptionsResponse(JNull, JNull),
     OptionsResponse(JStr(<<"GET", ",", "HEAD">>), JNull),
     OptionsResponse(JStr(<<"GET", ",", "POST">>), JNull),
     OptionsResponse(JNull, JStr(<<"get", ",", "post", ",", "patch", ",", "delete">>)),
     OptionsResponse(JStr(<<>>), JStr(<<"GET", ",", "PATCH">>)),
     OptionsResponse(JStr(<<"OPTIONS", ",", "DELETE">>), JStr(<<"POST">>))}

CountOutcomes ==
    {NetworkFailure, Response(200, JNull), Response(200, JStr(<<"0-24", "/", "50">>)),
     Response(206, JStr(<<"0-24", "/", "20000">>)), Response(200, JStr(<<"*", "/", "*">>)),
     Response(401, JNull)}

RpcOutcomes ==
    {NetworkFailure} \cup {[k |-> "response", status |-> s] : s \in {200, 400, 401, 403, 404}}

(***************************************************************************)
(* Analyzer.generateRemediations                                           *)
(***************************************************************************)
\* Property names every object literal {} inherits from Object.prototype: reading
\* tableIssues[name] for one of them yields the inherited (truthy, non-array) value.
ObjectPrototypeKeys ==
    {<<"constructor">>, <<"toString">>, <<"valueOf">>, <<"hasOwnProperty">>, <<"__proto__">>}

WRITE_ISSUE_TYPES == {"unrestricted_insert", "unrestricted_update", "unrestricted_delete"}

\* if (issue.table)
HasTable(issue) == "table" \in DOMAIN issue /\ issue.table # <<>>

\* The grouping loop (lines 858-866) over issues[i..]: g.keys is the insertion order of
\* the object's own keys, g.map the arrays.  A key that {} inherits is never
\* initialised, and push on the inherited value is a TypeError.
RECURSIVE GroupByTable(_, _, _)
GroupByTable(issues, i, g) ==
    IF i > Len(issues) THEN Ok(g)
    ELSE LET issue == issues[i] IN
         IF ~HasTable(issue) THEN GroupByTable(issues, i + 1, g)
         ELSE IF issue.table \in DOMAIN g.map
         THEN GroupByTable(issues, i + 1,
                           [g EXCEPT !.map[issue.table] = Append(@, issue)])
         ELSE IF issue.table \in ObjectPrototypeKeys
         THEN Throw(<<"tableIssues[issue.table].push is not a function">>)
         ELSE GroupByTable(issues, i + 1,
                           [keys |-> Append(g.keys, issue.table),
                            map |-> g.map @@ (issue.table :> <<issue>>)])

\* tableIssueList.some(i => [...].includes(i.type))
HasWriteIssue(tableIssueList) ==
    \E i \in 1..Len(tableIssueList) : tableIssueList[i].type \in WRITE_ISSUE_TYPES

EnableRlsCode(tableName) ==
    <<"-- Enable RLS on the table\n", "ALTER TABLE ">> \o tableName
    \o <<" ENABLE ROW LEVEL SECURITY;", "\n\nCREATE POLICY \"Deny all access\" ON ">>
    \o tableName
    \o <<"\n    FOR ALL\n    USING (false);\n\nCREATE POLICY \"Users can access own data\" ON ">>
    \o tableName \o <<"\n    FOR ALL\n    USING (auth.uid() = user_id);">>

EnableRlsRemediation(tableName) ==
    [title |-> <<"Enable RLS on \"">> \o tableName \o <<"\"">>, severity |-> "high",
     code |-> EnableRlsCode(tableName), language |-> "sql"]

RECURSIVE JoinNames(_)
JoinNames(names) ==
    IF names = <<>> THEN <<>>
    ELSE IF Len(names) = 1 THEN names[1]
    ELSE names[1] \o <<", ">> \o JoinNames(Tail(names))

RECURSIVE ColumnsExcept(_, _)
ColumnsExcept(columns, hidden) ==
    IF columns = <<>> THEN <<>>
    ELSE (IF \E h \in 1..Len(hidden) : hidden[h] = Head(columns).name
          THEN <<>> ELSE <<Head(columns).name>>) \o ColumnsExcept(Tail(columns), hidden)

\* tables.find(t => t.name === tableName)?.columns.filter(...).map(...).join(', ') || '*'
VisibleColumnList(tables, tableName, hidden) ==
    IF \E t \in 1..Len(tables) : tables[t].name = tableName
    THEN LET t == CHOOSE j \in 1..Len(tables) :
                      /\ tables[j].name = tableName
                      /\ \A h \in 1..(j - 1) : tables[h].name # tableName
             list == JoinNames(ColumnsExcept(tables[t].columns, hidden))
         IN IF list = <<>> THEN <<"*">> ELSE list
    ELSE <<"*">>

HideColumnsRemediation(tables, tableName, tableIssueList) ==
    LET sensitiveIssue == tableIssueList[CHOOSE i \in 1..Len(tableIssueList) :
                              /\ tableIssueList[i].type = "sensitive_columns"
                              /\ \A h \in 1..(i - 1) :
                                    tableIssueList[h].type # "sensitive_columns"]
        columns == [i \in 1..Len(sensitiveIssue.details) |-> sensitiveIssue.details[i].column]
    IN [title |-> <<"Hide sensitive columns in \"">> \o tableName \o <<"\"">>,
        severity |-> "medium",
        code |-> <<"CREATE VIEW ">> \o tableName \o <<"_public AS\nSELECT ">>
                 \o VisibleColumnList(tables, tableName, columns)
                 \o <<"\nFROM ">> \o tableName \o <<";\n\nREVOKE SELECT (">>
                 \o JoinNames(columns) \o <<") ON ">> \o tableName \o <<" FROM anon;">>,
        language |-> "sql"]

PolicyTemplates ==
    [title |-> <<"RLS Policy Templates">>, severity |-> "info",
     code |-> <<"CREATE POLICY \"Public read access\" ON table_name ...">>,
     language |-> "sql"]

RECURSIVE TableRemediations(_, _, _, _)
TableRemediations(tables, g, keys, i) ==
    IF i > Len(keys) THEN <<>>
    ELSE LET tableName == keys[i]
             tableIssueList == g.map[tableName]
         IN (IF HasWriteIssue(tableIssueList)
             THEN <<EnableRlsRemediation(tableName)>> ELSE <<>>)
            \o (IF \E j \in 1..Len(tableIssueList) :
                      tableIssueList[j].type = "sensitive_columns"
                THEN <<HideColumnsRemediation(tables, tableName, tableIssueList)>>
                ELSE <<>>)
            \o TableRemediations(tables, g, keys, i + 1)

\* Ok(remediations), or the exception of the grouping loop.
GenerateRemediations(issues, tables) ==
    LET grouped == GroupByTable(issues, 1, [keys |-> <<>>, map |-> <<>>]) IN
    IF IsThrow(grouped) THEN grouped
    ELSE Ok(TableRemediations(tables, grouped.v, grouped.v.keys, 1)
            \o (IF Len(grouped.v.keys) > 0 THEN <<PolicyTemplates>> ELSE <<>>))

(***************************************************************************)
(* Analyzer.generateSecurityChecklist, calculateDataExposure               *)
(***************************************************************************)
JArr(v) == [k |-> "arr", v |-> v]

\* map.get(key)
MapGet(m, key) == IF key \in DOMAIN m THEN m[key] ELSE JUndef

\* t.access?.insert === true || t.access?.update === true || t.access?.delete === true
HasWriteAccess(t) ==
    \/ FacetAllowed(t.access, "insert")
    \/ FacetAllowed(t.access, "update")
    \/ FacetAllowed(t.access, "delete")

\* sum + (t.access?.rowCount || 0)
RECURSIVE SumRowCounts(_)
SumRowCounts(tables) ==
    IF tables = <<>> THEN 0
    ELSE LET rowCount == OptProp(Head(tables).access, "rowCount") IN
         (IF rowCount.k = "num" THEN rowCount.n ELSE 0) + SumRowCounts(Tail(tables))

IsPublicBucket(b) == Truthy(GetProp(b, "public")) \/ Truthy(OptProp(GetProp(b, "access"), "isPublic"))

CHECK_FUNCTIONS_WARN == 10
CHECK_TABLES_PASS == 5
CHECK_TABLES_INFO == 15
CHECK_ROWS_PASS == 1000
CHECK_ROWS_INFO == 100000

\* The checklist entries (id and status) of a report built so far.
GenerateSecurityChecklist(report) ==
    LET tablesWithWriteAccess == SelectSeq(report.tables, HasWriteAccess)
        HasSensitive(t) == Len(t.sensitiveColumns) > 0
        tablesWithSensitiveData == SelectSeq(report.tables, HasSensitive)
        publicBuckets == IF report.buckets.k = "arr"
                         THEN SelectSeq(report.buckets.v, IsPublicBucket) ELSE <<>>
        exposedFunctions == Len(report.functions)
        tableCount == Len(report.tables)
        totalRows == SumRowCounts(report.tables)
    IN <<[id |-> "rls_enabled",
          status |-> IF Len(tablesWithWriteAccess) = 0 THEN "pass" ELSE "fail"],
         [id |-> "sensitive_data",
          status |-> IF Len(tablesWithSensitiveData) = 0 THEN "pass" ELSE "warn"]>>
       \o (IF Truthy(report.jwtInfo)
           THEN <<[id |-> "jwt_valid",
                   status |-> IF report.jwtInfo.f.valid /\ ~report.jwtInfo.f.isExpired
                              THEN "pass" ELSE "fail"]>>
           ELSE <<>>)
       \o <<[id |-> "storage_private",
             status |-> IF Len(publicBuckets) = 0 THEN "pass" ELSE "warn"],
            [id |-> "function_exposure",
             status |-> IF exposedFunctions = 0 THEN "pass"
                        ELSE IF exposedFunctions > CHECK_FUNCTIONS_WARN THEN "warn" ELSE "info"],
            [id |-> "table_exposure",
             status |-> IF tableCount <= CHECK_TABLES_PASS THEN "pass"
                        ELSE IF tableCount <= CHECK_TABLES_INFO THEN "info" ELSE "warn"],
            [id |-> "data_volume",
             status |-> IF totalRows < CHECK_ROWS_PASS THEN "pass"
                        ELSE IF totalRows < CHECK_ROWS_INFO THEN "info" ELSE "warn"]>>

\* table.access?.rowCount !== null && table.access?.rowCount !== undefined
HasRowCount(t) == OptProp(t.access, "rowCount").k \notin {"null", "undefined"}

RECURSIVE SumKnownRows(_)
SumKnownRows(tables) ==
    IF tables = <<>> THEN 0
    ELSE (IF HasRowCount(Head(tables)) THEN OptProp(Head(tables).access, "rowCount").n ELSE 0)
         + SumKnownRows(Tail(tables))

RECURSIVE SumColumns(_)
SumColumns(tables) ==
    IF tables = <<>> THEN 0 ELSE Len(Head(tables).columns) + SumColumns(Tail(tables))

\* Stable insertion of e into a list sorted by descending rowCount.
RECURSIVE InsertByRows(_, _)
InsertByRows(sorted, e) ==
    IF sorted = <<>> THEN <<e>>
    ELSE IF Head(sorted).rowCount >= e.rowCount
         THEN <<Head(sorted)>> \o InsertByRows(Tail(sorted), e)
         ELSE <<e>> \o sorted

RECURSIVE SortByRows(_)
SortByRows(list) ==
    IF list = <<>> THEN <<>>
    ELSE InsertByRows(SortByRows(SubSeq(list, 1, Len(list) - 1)), list[Len(list)])

LARGEST_TABLES == 5

CalculateDataExposure(tables) ==
    LET counted == SelectSeq(tables, HasRowCount)
        largest == SortByRows([i \in 1..Len(counted) |->
                       [name |-> counted[i].name,
                        rowCount |-> OptProp(counted[i].access, "rowCount").n]])
        HasSensitive(t) == Len(t.sensitiveColumns) > 0
        sensitive == SelectSeq(tables, HasSensitive)
        writable == SelectSeq(tables, HasWriteAccess)
    IN [totalTables |-> Len(tables),
        totalRows |-> SumKnownRows(tables),
        totalColumns |-> SumColumns(tables),
        tablesWithRowCount |-> Len(counted),
        largestTables |-> SubSeq(largest, 1, Min(LARGEST_TABLES, Len(largest))),
        sensitiveDataTables |-> [i \in 1..Len(sensitive) |-> sensitive[i].name],
        writeAccessTables |-> [i \in 1..Len(writable) |->
            [name |-> writable[i].name,
             canInsert |-> FacetAllowed(writable[i].access, "insert"),
             canUpdate |-> FacetAllowed(writable[i].access, "update"),
             canDelete |-> FacetAllowed(writable[i].access, "delete")]]]

(***************************************************************************)
(* Analyzer.generateReport                                                 *)
(***************************************************************************)
\* The per-table loop (lines 1110-1114): Ok(issues) or the first exception.
RECURSIVE TableIssues(_, _, _)
TableIssues(tables, tableAccessResults, i) ==
    IF i > Len(tables) THEN Ok(<<>>)
    ELSE LET one == AnalyzeTableSecurity(tables[i], MapGet(tableAccessResults, tables[i].name)) IN
         IF IsThrow(one) THEN one
         ELSE LET rest == TableIssues(tables, tableAccessResults, i + 1) IN
              IF IsThrow(rest) THEN rest ELSE Ok(one.v \o rest.v)

RECURSIVE FunctionIssues(_, _, _)
FunctionIssues(functions, functionTestResults, i) ==
    IF i > Len(functions) THEN <<>>
    ELSE AnalyzeFunctionSecurity(functions[i], MapGet(functionTestResults, functions[i].name))
         \o FunctionIssues(functions, functionTestResults, i + 1)

RECURSIVE BucketIssues(_, _)
BucketIssues(buckets, i) ==
    IF i > Len(buckets) THEN <<>>
    ELSE AnalyzeBucketSecurity(buckets[i], GetProp(buckets[i], "access"))
         \o BucketIssues(buckets, i + 1)

\* rowCount !== null && rowCount !== undefined && rowCount > 0
IsExposedTable(t) ==
    LET rowCount == OptProp(t.access, "rowCount") IN rowCount.k = "num" /\ rowCount.n > 0

\* testResults?.requiresAuth !== true
IsExposedFunction(testResults) == OptProp(testResults, "requiresAuth") # JBool(TRUE)

\* allIssues.sort by severityOrder (a stable sort).
SortBySeverity(issues) ==
    LET Critical(i) == i.severity = "critical"
        High(i) == i.severity = "high"
        Medium(i) == i.severity = "medium"
        Low(i) == i.severity = "low"
    IN SelectSeq(issues, Critical) \o SelectSeq(issues, High)
       \o SelectSeq(issues, Medium) \o SelectSeq(issues, Low)

\* additionalData.totalPublicRecords || tablesWithAccess.reduce(...)
TotalPublicRecords(additionalData, tablesWithAccess) ==
    IF Truthy(additionalData.totalPublicRecords)
    THEN additionalData.totalPublicRecords.n
    ELSE SumRowCounts(tablesWithAccess)

\* tablesWithAccess (lines 1132-1136)
TablesWithAccess(parsedData, tableAccessResults) ==
    [i \in 1..Len(parsedData.tables) |->
        [name |-> parsedData.tables[i].name,
         columns |-> parsedData.tables[i].columns,
         operations |-> parsedData.tables[i].operations,
         access |-> OrElse(MapGet(tableAccessResults, parsedData.tables[i].name), JObj(<<>>)),
         sensitiveColumns |-> DetectSensitiveColumns(parsedData.tables[i].columns)]]

ExposedTablesCount(tablesWithAccess) == Len(SelectSeq(tablesWithAccess, IsExposedTable))

ExposedFunctionsCount(functions, functionTestResults) ==
    LET ExposedFn(f) == IsExposedFunction(MapGet(functionTestResults, f.name)) IN
    Len(SelectSeq(functions, ExposedFn))

\* A variant of the operator below that reports a count only when it is positive.
PositiveCountIssues(exposedTablesCount, exposedFunctionsCount) ==
    (IF exposedTablesCount > 0
     THEN <<[severity |-> "low", type |-> "many_tables", count |-> exposedTablesCount]>>
     ELSE <<>>)
    \o (IF exposedFunctionsCount > 0
        THEN <<[severity |-> "low", type |-> "many_functions",
                count |-> exposedFunctionsCount]>>
        ELSE <<>>)

\* The two issues every report carries (lines 1151-1168).
AlwaysIssues(exposedTablesCount, exposedFunctionsCount) ==
    <<[severity |-> "low", type |-> "many_tables", count |-> exposedTablesCount],
      [severity |-> "low", type |-> "many_functions", count |-> exposedFunctionsCount]>>

\* allIssues after the sort (lines 1107-1172): Ok(issues) or an exception.
AllIssues(parsedData, tableAccessResults, functionTestResults, additionalData) ==
    LET tableIssues == TableIssues(parsedData.tables, tableAccessResults, 1) IN
    IF IsThrow(tableIssues) THEN tableIssues
    ELSE Ok(SortBySeverity(
            tableIssues.v
            \o FunctionIssues(parsedData.functions, functionTestResults, 1)
            \o (IF Truthy(additionalData.buckets)
                THEN BucketIssues(additionalData.buckets.v, 1) ELSE <<>>)
            \o AlwaysIssues(
                   ExposedTablesCount(TablesWithAccess(parsedData, tableAccessResults)),
                   ExposedFunctionsCount(parsedData.functions, functionTestResults))))

\* The report object as first assembled (lines 1174-1201).
ReportCore(parsedData, functionTestResults, additionalData, allIssues, tablesWithAccess) ==
    [summary |->
        [totalTables |-> ExposedTablesCount(tablesWithAccess),
         totalFunctions |-> ExposedFunctionsCount(parsedData.functions, functionTestResults),
         totalIssues |-> Len(allIssues),
         totalPublicRecords |-> TotalPublicRecords(additionalData, tablesWithAccess),
         riskScore |-> CalculateRiskScore(allIssues)],
     tables |-> tablesWithAccess,
     functions |-> [i \in 1..Len(parsedData.functions) |->
         [name |-> parsedData.functions[i].name,
          testResults |-> OrElse(MapGet(functionTestResults, parsedData.functions[i].name),
                                 JObj(<<>>))]],
     issues |-> allIssues,
     jwtInfo |-> additionalData.jwtInfo,
     buckets |-> additionalData.buckets,
     mode |-> "anonymous"]

\* report.remediations, report.checklist, report.dataExposure (lines 1204-1226).
CompleteReport(report, remediations) ==
    IF IsThrow(remediations) THEN remediations
    ELSE Ok([summary |-> report.summary, tables |-> report.tables,
             functions |-> report.functions, issues |-> report.issues,
             jwtInfo |-> report.jwtInfo, buckets |-> report.buckets, mode |-> report.mode,
             remediations |-> remediations.v,
             checklist |-> GenerateSecurityChecklist(report),
             dataExposure |-> CalculateDataExposure(report.tables)])

\* The part of generateReport after the issues are collected and sorted.
ReportFromIssues(issues, tablesWithAccess, parsedData, functionTestResults, additionalData) ==
    IF IsThrow(issues) THEN issues
    ELSE CompleteReport(
             ReportCore(parsedData, functionTestResults, additionalData, issues.v,
                        tablesWithAccess),
             GenerateRemediations(issues.v, tablesWithAccess))

\* Ok(report), or the exception that left generateReport.
GenerateReport(parsedData, tableAccessResults, functionTestResults, additionalData) ==
    ReportFromIssues(
        AllIssues(parsedData, tableAccessResults, functionTestResults, additionalData),
        TablesWithAccess(parsedData, tableAccessResults),
        parsedData, functionTestResults, additionalData)

(***************************************************************************)
(* SupabaseDetector: discovery of the project URL and the anon key from a  *)
(* front-end page.  A page (or a script asset) is a sequence of fragments  *)
(* separated by markup; a fragment [kind, url, token] is one piece of text *)
(* the extraction patterns can match:                                      *)
(*   scriptSrc     <script src="url">          linkHref  <link href="url"> *)
(*   envUrl        SUPABASE_URL="url"          envKey    SUPABASE_ANON_KEY="token" *)
(*   createClient  createClient("url", "token")                            *)
(*   bundledPair   "url","token"                                           *)
(*   literal       a url or a token standing alone in the text             *)
(*   mention       the words "powered by supabase"                         *)
(* The pages have no inline script, so checkJavaScriptGlobals and          *)
(* checkBundledCode (lines 244-353), which read inline scripts only, find  *)
(* nothing.                                                                *)
(***************************************************************************)
Fragment(kind, url, token) == [kind |-> kind, url |-> url, token |-> token]

SUPABASE_HOST_SUFFIXES == {".supabase.co", ".supabase.in", ".supabase.com"}
SUPABASE_URL_MARKS ==
    SUPABASE_HOST_SUFFIXES
    \cup {"supabase.io", "/rest/v1/", "/auth/v1/", "/realtime/v1/", "/storage/v1/",
          "/functions/v1/"}
URL_SCHEMES == {"http://", "https://"}
HOST_LABELS == {"abc", "cdn", "www"}

\* isSupabaseURL(url), lines 503-522
IsSupabaseURL(url) == \E i \in 1..Len(url) : url[i] \in SUPABASE_URL_MARKS

\* The positions where /https?:\/\/[a-zA-Z0-9-]+\.supabase\.(co|in|com)/ matches.
ProjectUrlMatches(url) ==
    {i \in 1..(Len(url) - 2) : /\ url[i] \in URL_SCHEMES
                               /\ url[i + 1] \in HOST_LABELS
                               /\ url[i + 2] \in SUPABASE_HOST_SUFFIXES}

\* extractProjectUrl(url), lines 529-545: the matched text, or null.
ExtractProjectUrl(url) ==
    IF ProjectUrlMatches(url) = {} THEN JNull
    ELSE LET i == CHOOSE j \in ProjectUrlMatches(url) :
                      \A h \in ProjectUrlMatches(url) : j <= h
         IN JStr(SubSeq(url, i, i + 2))

\* this.extractProjectUrl(value) || value
ProjectUrlOr(url) == OrElse(ExtractProjectUrl(url), JStr(url))

\* The number of characters of one token of a key.
TextLength(tok) ==
    CASE tok = "." -> 1
      [] tok = "e30" -> 3
      [] tok = "sig" -> 3
      [] tok = "eyJhbGciOiJIUzI1NiJ9" -> 20
      [] tok = "eyJyb2xlIjoiIn0" -> 15
      [] tok = "eyJyb2xlIjoiYW5vbiIsImlzcyI6Imh0dHBzOi8vYWJjLnN1cGFiYXNlLmNvL2F1dGgvdjEiLCJleHAiOjIwMH0"
           -> 86
      [] tok = "sb_publishable_" -> 15
      [] OTHER -> 3

RECURSIVE StringLength(_)
StringLength(s) == IF s = <<>> THEN 0 ELSE TextLength(Head(s)) + StringLength(Tail(s))

EYJ_TOKENS ==
    {"eyJhbGciOiJIUzI1NiJ9", "eyJyb2xlIjoiIn0", "eyJyb2xlIjoic2VydmljZV9yb2xlIn0",
     "eyJpc3MiOjEyM30",
     "eyJyb2xlIjoiYW5vbiIsImlzcyI6Imh0dHBzOi8vYWJjLnN1cGFiYXNlLmNvL2F1dGgvdjEiLCJleHAiOjIwMH0"}

\* key.startsWith('eyJ')
StartsWithEyJ(key) == key # <<>> /\ key[1] \in EYJ_TOKENS

\* key.startsWith('eyJ') || key.startsWith('sb_publishable_')
HasKeyPrefix(key) == StartsWithEyJ(key) \/ StartsWith(key, <<"sb_publishable_">>)

\* /eyJ[A-Za-z0-9_-]+\.eyJ[A-Za-z0-9_-]+\.[A-Za-z0-9_-]+/ matches the whole text.
IsJwtShaped(key) ==
    /\ Len(key) = 5
    /\ key[1] \in EYJ_TOKENS /\ key[2] = "." /\ key[3] \in EYJ_TOKENS /\ key[4] = "."
    /\ key[5] # "."

\* /eyJ[A-Za-z0-9_-]+\.[A-Za-z0-9_-]+\.[A-Za-z0-9_-]+/ of the bundled patterns.
IsBundledKey(key) ==
    /\ Len(key) = 5
    /\ key[1] \in EYJ_TOKENS /\ key[2] = "." /\ key[3] # "." /\ key[4] = "." /\ key[5] # "."

JWT_MIN_LENGTH == 50
MAX_JS_FILES == 10
MIN_CONTENT_LENGTH == 100

\* The fields of SupabaseDetector after the reset of lines 21-24.
Detector0 ==
    [detected |-> FALSE, detectionDetails |-> <<>>, projectUrl |-> JNull, anonKey |-> JNull]

Detected(d, detail) ==
    [d EXCEPT !.detected = TRUE, !.detectionDetails = Append(@, detail)]

\* checkScriptSources / checkLinkHrefs (lines 212-239) over content[i..].
RECURSIVE CheckSources(_, _, _, _)
CheckSources(d, content, kind, i) ==
    IF i > Len(content) THEN d
    ELSE IF content[i].kind = kind /\ IsSupabaseURL(content[i].url)
    THEN LET projectUrl == ExtractProjectUrl(content[i].url) IN
         CheckSources(Detected([d EXCEPT !.projectUrl =
                                     IF Truthy(projectUrl) THEN projectUrl ELSE @],
                               kind),
                      content, kind, i + 1)
    ELSE CheckSources(d, content, kind, i + 1)

\* checkTextContent (lines 310-323): /supabase\.co/i, /supabase\.com/i and
\* /powered by supabase/i, each tested on the whole text.
HasUrlToken(content, toks) ==
    \E i \in 1..Len(content) : \E j \in 1..Len(content[i].url) : content[i].url[j] \in toks

TextPattern(d, found, detail) == IF found THEN Detected(d, detail) ELSE d

CheckTextContent(d, content) ==
    TextPattern(
        TextPattern(
            TextPattern(d, HasUrlToken(content, {".supabase.co", ".supabase.com"}),
                        "Text content: supabase.co"),
            HasUrlToken(content, {".supabase.com"}), "Text content: supabase.com"),
        \E i \in 1..Len(content) : content[i].kind = "mention",
        "Text content: powered by supabase")

IsEnvUrl(f) == f.kind = "envUrl" /\ f.url # <<>>
IsEnvKey(f) == f.kind = "envKey" /\ f.token # <<>>
IsCreateClient(f) == f.kind = "createClient" /\ f.url # <<>> /\ f.token # <<>>

\* One value captured by an environment pattern for the URL (lines 371-378).
EnvUrlMatch(d, url) ==
    IF IsSupabaseURL(url)
    THEN Detected([d EXCEPT !.projectUrl = ProjectUrlOr(url)], "Found Supabase URL in environment variable")
    ELSE d

Quoted(text) == <<"\"">> \o text \o <<"\"">>

\* Lines 360-379.  SUPABASE_URL="url" is matched by the fourth pattern, which
\* captures the text between the quotes, and by the sixth, /SUPABASE_URL[=:]\s*([^\s;]+)/i,
\* which captures it with its quotes; each pattern takes its first match in the text.
ExtractEnvUrl(d, content) ==
    LET found == SelectSeq(content, IsEnvUrl) IN
    IF found = <<>> THEN d
    ELSE EnvUrlMatch(EnvUrlMatch(d, found[1].url), Quoted(found[1].url))

\* Lines 382-401: SUPABASE_ANON_KEY="token" is matched by the fourth pattern.
ExtractEnvKey(d, content) ==
    LET found == SelectSeq(content, IsEnvKey) IN
    IF found # <<>> /\ HasKeyPrefix(found[1].token)
    THEN Detected([d EXCEPT !.anonKey = JStr(found[1].token)],
                  "Found Supabase anon key in environment variable")
    ELSE d

\* Lines 422-428: one capture group of a createClient match.
ClientArgument(d, text) ==
    IF IsSupabaseURL(text) THEN [d EXCEPT !.projectUrl = ProjectUrlOr(text)]
    ELSE IF HasKeyPrefix(text) THEN [d EXCEPT !.anonKey = JStr(text)]
    ELSE d

\* Lines 404-432: createClient("url", "token") is matched by the first pattern.
ExtractCreateClient(d, content) ==
    LET found == SelectSeq(content, IsCreateClient) IN
    IF found = <<>> THEN d
    ELSE Detected(ClientArgument(ClientArgument(d, found[1].url), found[1].token),
                  "Found createClient pattern")

HasJwt(f) == IsJwtShaped(f.token)
IsLongJwt(f) == IsJwtShaped(f.token) /\ StringLength(f.token) > JWT_MIN_LENGTH

\* sort((a, b) => b.length - a.length) followed by find(jwt => jwt.length > 50): the
\* first of the longest matches, when that one is longer than 50.
LongestJwt(found) ==
    LET i == CHOOSE j \in 1..Len(found) :
                 /\ \A h \in 1..Len(found) :
                        StringLength(found[h].token) <= StringLength(found[j].token)
                 /\ \A h \in 1..(j - 1) :
                        StringLength(found[h].token) < StringLength(found[j].token)
    IN found[i].token

\* Lines 435-447
ExtractJwt(d, content) ==
    LET found == SelectSeq(content, IsLongJwt) IN
    IF found # <<>> /\ ~Truthy(d.anonKey)
    THEN Detected([d EXCEPT !.anonKey = JStr(LongestJwt(found))],
                  "Found JWT token in page content")
    ELSE d

\* ["'](https?:\/\/[^"']+\.supabase\.(co|in|com))["'] on a quoted url
IsBundledUrl(url) ==
    Len(url) >= 3 /\ url[1] \in URL_SCHEMES /\ url[Len(url)] \in SUPABASE_HOST_SUFFIXES

\* "url", "token" with nothing quoted in between: bundledPattern1 (line 451)
IsQuotedPair(f) ==
    f.kind \in {"createClient", "bundledPair"} /\ IsBundledUrl(f.url) /\ IsBundledKey(f.token)

\* ["url","token"]: bundledPattern3 (line 471)
IsArrayPair(f) == f.kind = "bundledPair" /\ IsBundledUrl(f.url) /\ IsBundledKey(f.token)

\* Lines 453-458, 463-468 and 473-478 for the first match found.
BundledMatch(d, found, detail) ==
    IF found = <<>> THEN d
    ELSE Detected([d EXCEPT
                     !.projectUrl = IF Truthy(@) THEN @ ELSE ProjectUrlOr(found[1].url),
                     !.anonKey = IF Truthy(@) THEN @ ELSE JStr(found[1].token)],
                  detail)

\* Lines 449-478; no fragment has the form url:"...",key:"..." of bundledPattern2.
ExtractBundled(d, content) ==
    BundledMatch(BundledMatch(d, SelectSeq(content, IsQuotedPair),
                              "Found credentials in bundled code pattern"),
                 SelectSeq(content, IsArrayPair), "Found credentials in array pattern")

HasProjectUrl(f) == ProjectUrlMatches(f.url) # {}

\* Lines 481-487
ExtractUrl(d, content) ==
    LET found == SelectSeq(content, HasProjectUrl) IN
    IF found # <<>> /\ ~Truthy(d.projectUrl)
    THEN Detected([d EXCEPT !.projectUrl = ProjectUrlOr(ExtractProjectUrl(found[1].url).s)],
                  "Found Supabase URL")
    ELSE d

\* text.replace(/\/+$/, '')
RECURSIVE StripTrailingSlashes(_)
StripTrailingSlashes(text) ==
    IF text # <<>> /\ text[Len(text)] = "/"
    THEN StripTrailingSlashes(SubSeq(text, 1, Len(text) - 1)) ELSE text

\* text.replace(/^['"]|['"]$/g, '')
StripQuotes(text) ==
    LET a == IF text # <<>> /\ text[1] \in {"\"", "'"} THEN Tail(text) ELSE text
    IN IF a # <<>> /\ a[Len(a)] \in {"\"", "'"} THEN SubSeq(a, 1, Len(a) - 1) ELSE a

\* Lines 490-495
CleanUp(d) ==
    [d EXCEPT !.projectUrl = IF Truthy(@) THEN JStr(StripTrailingSlashes(@.s)) ELSE @,
              !.anonKey = IF Truthy(@) THEN JStr(StripQuotes(@.s)) ELSE @]

\* extractCredentials(htmlContent), lines 358-496
ExtractCredentials(d, content) ==
    CleanUp(ExtractUrl(ExtractBundled(ExtractJwt(ExtractCreateClient(
        ExtractEnvKey(ExtractEnvUrl(d, content), content), content), content), content),
        content))

\* new URL(baseUrl).origin for a base URL <<scheme, host, ...>>
Origin(baseUrl) == SubSeq(baseUrl, 1, 2)

\* Lines 561-570: the absolute URL of a script source.
AbsoluteUrl(src, baseUrl) ==
    IF StartsWith(src, <<"//">>) THEN <<"https:">> \o src
    ELSE IF StartsWith(src, <<"/">>) THEN Origin(baseUrl) \o src
    ELSE IF src[1] \notin URL_SCHEMES THEN Origin(baseUrl) \o <<"/">> \o src
    ELSE src

\* src.endsWith('.js') || src.includes('.js?')
IsJsSource(src) == src[Len(src)] = ".js" \/ Includes(src, ".js?")

\* Lines 553-580: the script assets the escalation fetches, at most ten.
RECURSIVE JsFiles(_, _, _)
JsFiles(content, baseUrl, i) ==
    IF i > Len(content) THEN <<>>
    ELSE (IF /\ content[i].kind = "scriptSrc" /\ content[i].url # <<>>
             /\ (IsJsSource(content[i].url)
                 \/ IsSupabaseURL(AbsoluteUrl(content[i].url, baseUrl)))
          THEN <<AbsoluteUrl(content[i].url, baseUrl)>> ELSE <<>>)
         \o JsFiles(content, baseUrl, i + 1)

FilesToFetch(content, baseUrl) ==
    LET jsFiles == JsFiles(content, baseUrl, 1)
    IN SubSeq(jsFiles, 1, Min(MAX_JS_FILES, Len(jsFiles)))

HasBoth(d) == Truthy(d.projectUrl) /\ Truthy(d.anonKey)

\* An asset response: its content is scanned when the response is ok and the text
\* is longer than 100 characters (lines 600-604).
IsUsable(outcome) ==
    outcome.k = "response" /\ outcome.ok /\ outcome.length > MIN_CONTENT_LENGTH

\* A variant of the operator below in which an asset that cannot be used ends the
\* escalation.
RECURSIVE EscalateUntilFailure(_, _, _, _)
EscalateUntilFailure(d, files, outcomes, i) ==
    IF i > Len(files) THEN [detector |-> d, fetched |-> i - 1]
    ELSE IF ~IsUsable(outcomes[i]) THEN [detector |-> d, fetched |-> i]
    ELSE LET scanned == ExtractCredentials(d, outcomes[i].content) IN
         IF HasBoth(scanned)
         THEN [detector |-> Detected(scanned, "Found credentials in script"),
               fetched |-> i]
         ELSE EscalateUntilFailure(scanned, files, outcomes, i + 1)

\* Lines 583-620 from file i on: fetched is the number of assets requested so far.
RECURSIVE Escalate(_, _, _, _)
Escalate(d, files, outcomes, i) ==
    IF i > Len(files) THEN [detector |-> d, fetched |-> i - 1]
    ELSE IF ~IsUsable(outcomes[i]) THEN Escalate(d, files, outcomes, i + 1)
    ELSE LET scanned == ExtractCredentials(d, outcomes[i].content) IN
         IF HasBoth(scanned)
         THEN [detector |-> Detected(scanned, "Found credentials in script"),
               fetched |-> i]
         ELSE Escalate(scanned, files, outcomes, i + 1)

NeedsEscalation(d) == d.detected /\ ~HasBoth(d)

\* The six synchronous steps of analyzeContent, lines 185-200.
ScanPage(d, content) ==
    ExtractCredentials(
        CheckTextContent(CheckSources(CheckSources(d, content, "scriptSrc", 1),
                                      content, "linkHref", 1),
                         content),
        content)

AfterScan(scanned, content, baseUrl, outcomes) ==
    IF NeedsEscalation(scanned)
    THEN Escalate(scanned, FilesToFetch(content, baseUrl), outcomes, 1)
    ELSE [detector |-> scanned, fetched |-> 0]

\* analyzeContent(htmlContent, baseUrl), lines 179-207
AnalyzeContent(d, content, baseUrl, outcomes) ==
    AfterScan(ScanPage(d, content), content, baseUrl, outcomes)

NO_USAGE_MESSAGE == <<"No Supabase usage detected on this page.">>
PARTIAL_MESSAGE == <<"Supabase detected but could not extract both project URL and anon key.">>
NO_CONTENT_MESSAGE == <<"Could not fetch page content. CORS may be blocking the request.">>

\* Lines 27-30
NormalizeUrl(frontendUrl) ==
    IF frontendUrl # <<>> /\ frontendUrl[1] \in URL_SCHEMES THEN frontendUrl
    ELSE <<"https://">> \o frontendUrl

\* Lines 55-81: what detectFromUrl hands back for the fields d.
DetectionResult(d) ==
    IF ~d.detected THEN Throw(NO_USAGE_MESSAGE)
    ELSE IF ~HasBoth(d) THEN Throw(PARTIAL_MESSAGE)
    ELSE Ok(JObj([projectUrl |-> d.projectUrl, anonKey |-> d.anonKey,
                  details |-> JArr(d.detectionDetails)]))

Analyzed(analysis) ==
    [result |-> DetectionResult(analysis.detector), detector |-> analysis.detector,
     fetched |-> analysis.fetched]

\* encodeURIComponent on the tokens of a URL.
EncodeToken(tok) ==
    CASE tok = "https://" -> "https%3A%2F%2F"
      [] tok = "http://" -> "http%3A%2F%2F"
      [] tok = "/" -> "%2F"
      [] OTHER -> tok

EncodeURIComponent(url) == [i \in 1..Len(url) |-> EncodeToken(url[i])]

\* The proxy relays of fetchPageContent, lines 95-101, in the order they are tried.
PROXY_COUNT == 5

ProxyUrl(k, url) ==
    CASE k = 1 -> <<"https://", "api.allorigins.win", "/raw?url=">> \o EncodeURIComponent(url)
      [] k = 2 -> <<"https://", "corsproxy.io", "/?">> \o EncodeURIComponent(url)
      [] k = 3 -> <<"https://", "api.codetabs.com", "/v1/proxy?quest=">>
                  \o EncodeURIComponent(url)
      [] k = 4 -> <<"https://", "cors-anywhere.herokuapp.com", "/">> \o url
      [] k = 5 -> <<"https://", "thingproxy.freeboard.io", "/fetch/">> \o url

\* The URL strategy k requests: a relay, or the page itself for the direct attempt.
StrategyUrl(k, url) == IF k <= PROXY_COUNT THEN ProxyUrl(k, url) ELSE url

\* The rejection of a fetch whose AbortController fired (lines 110-111, 141-142).
Aborted == [k |-> "failed", msg |-> <<"The operation was aborted.">>]

TIMED_OUT_MESSAGE == <<"Request timed out. The website may be slow or blocking requests.">>
NOT_FETCHED_MESSAGE == <<"Could not fetch page content. Please check the URL and try again.">>

\* Lines 164-171: the error raised when no strategy returned content.
AcquisitionError(lastError) ==
    IF lastError = JNull THEN Throw(NOT_FETCHED_MESSAGE)
    ELSE IF lastError = Aborted THEN Throw(TIMED_OUT_MESSAGE)
    ELSE Throw(<<"Could not fetch page content. CORS may be blocking the request. Error: ">>
               \o lastError.msg)

Acquired(result, tried) == [result |-> result, tried |-> tried]

\* A variant of the operator below that raises without the direct attempt.
GiveUpAfterProxies(outcomes, lastError) == Acquired(AcquisitionError(lastError), PROXY_COUNT)

\* Lines 138-171: the direct attempt, after every relay was tried.
TryDirect(outcomes, lastError) ==
    LET outcome == outcomes[PROXY_COUNT + 1] IN
    IF outcome.k = "failed" THEN Acquired(AcquisitionError(outcome), PROXY_COUNT + 1)
    ELSE IF outcome.ok THEN Acquired(Ok(outcome.content), PROXY_COUNT + 1)
    ELSE Acquired(AcquisitionError(lastError), PROXY_COUNT + 1)

\* Lines 103-136 from relay k on: a relay's content is returned when the response is ok
\* and the text is longer than 100 characters.
RECURSIVE TryProxies(_, _, _)
TryProxies(outcomes, k, lastError) ==
    IF k > PROXY_COUNT THEN TryDirect(outcomes, lastError)
    ELSE IF outcomes[k].k = "failed" THEN TryProxies(outcomes, k + 1, outcomes[k])
    ELSE IF IsUsable(outcomes[k]) THEN Acquired(Ok(outcomes[k].content), k)
    ELSE TryProxies(outcomes, k + 1, lastError)

\* fetchPageContent(url), lines 93-172, for the outcomes of the six fetches it may start:
\* the content returned or the error raised, and the URLs requested, in order.
FetchPageContent(url, outcomes) ==
    LET acquired == TryProxies(outcomes, 1, JNull) IN
    [result |-> acquired.result,
     requested |-> [k \in 1..acquired.tried |-> StrategyUrl(k, url)]]

\* detectFromUrl(frontendUrl), lines 18-86, for the page fetchPageContent returned
\* (or the error it raised) and the outcomes of the asset fetches: the value
\* returned or the error raised, and the fields left on SupabaseDetector.
DetectFromUrl(frontendUrl, page, outcomes) ==
    IF IsThrow(page) THEN [result |-> page, detector |-> Detector0, fetched |-> 0]
    ELSE IF page.v = <<>>
    THEN [result |-> Throw(NO_CONTENT_MESSAGE), detector |-> Detector0, fetched |-> 0]
    ELSE Analyzed(AnalyzeContent(Detector0, page.v, NormalizeUrl(frontendUrl), outcomes))

(***************************************************************************)
(* Inputs of the pure functions                                            *)
(***************************************************************************)
MaxSegs == 4

Blobs == {"e30", "eyJyb2xlIjoic2VydmljZV9yb2xlIn0", "eyJyb2xlIjoiIn0", "eyJpc3MiOjEyM30",
          "eyJyb2xlIjoiYW5vbiIsImlzcyI6Imh0dHBzOi8vYWJjLnN1cGFiYXNlLmNvL2F1dGgvdjEiLCJleHAiOjIwMH0",
          "bnVsbA", "eA", "!!"}

SegmentTexts == {<<>>} \cup {<<b>> : b \in Blobs}

TokenStrings ==
    UNION {{JoinWith(ps, ".") : ps \in [1..n -> SegmentTexts]} : n \in 1..MaxSegs}

TokenInputs == {JStr(s) : s \in TokenStrings} \cup {JNull, JUndef, JNum(5)}

Clock == {100000, 300000}

DecodeCalls == {[fn |-> "decodeJWT", token |-> t, now |-> n] : t \in TokenInputs, n \in Clock}

\* API descriptions
Schema(type) == JObj([type |-> JStr(<<type>>)])
QueryParam(name, type) == [in |-> "query", name |-> name, schema |-> Schema(type)]
OpEntry(method, params) == [key |-> method, val |-> JObj([parameters |-> JArr(params)])]
PathEntry(path, ops) == [key |-> path, val |-> JEntries(ops)]

UsersPath ==
    PathEntry(<<"/", "users">>,
              <<OpEntry("get", <<QueryParam(<<"id">>, "integer"), QueryParam(<<"email">>, "text"),
                                 QueryParam(<<"select">>, "string")>>),
                OpEntry("post", <<>>), OpEntry("delete", <<>>)>>)

AccountsPath ==
    PathEntry(<<"/", "accounts">>,
              <<OpEntry("get", <<QueryParam(<<"id">>, "integer"),
                                 QueryParam(<<"Password", "_", "hash">>, "text")>>)>>)

AccountsDefinition ==
    JObj([properties |-> JEntries(<<[key |-> <<"id">>, val |-> Schema("bigint")],
                                    [key |-> <<"api", "_", "key">>, val |-> Schema("text")]>>),
          required |-> JArr(<< <<"id">> >>)])

DeleteUserPath == PathEntry(<<"/", "rpc", "/", "delete", "_", "user">>, <<OpEntry("post", <<>>)>>)
GetItemsPath == PathEntry(<<"/", "rpc", "/", "get", "_", "items">>, <<OpEntry("get", <<>>)>>)
AdminResetPath == PathEntry(<<"/", "rpc", "/", "Admin", "reset">>, <<OpEntry("post", <<>>)>>)
ConstructorPath ==
    PathEntry(<<"/", "constructor">>, <<OpEntry("get", <<QueryParam(<<"id">>, "integer")>>)>>)

DocNoPaths == JObj([swagger |-> JStr(<<"2.0">>)])
DocEmptyPaths == JObj([paths |-> JEntries(<<>>)])
DocUsers == JObj([paths |-> JEntries(<<UsersPath, DeleteUserPath>>)])
DocAccounts ==
    JObj([paths |-> JEntries(<<AccountsPath, GetItemsPath, AdminResetPath>>),
          definitions |-> JObj(<<"accounts">> :> AccountsDefinition)])
DocTwo == JObj([paths |-> JEntries(<<UsersPath, AccountsPath, DeleteUserPath>>)])
DocConstructor == JObj([paths |-> JEntries(<<ConstructorPath, GetItemsPath>>)])

Docs == {DocNoPaths, DocEmptyPaths, DocUsers, DocAccounts, DocTwo, DocConstructor}

\* Descriptions whose paths have other shapes: a path mapped to null or to a text, an
\* operation that is null or has no fields, a table under both "/users" and "/users/".
BareOperation == [key |-> "get", val |-> JObj(<<>>)]
UsersSlashPath == PathEntry(<<"/", "users", "/">>, <<OpEntry("get", <<>>)>>)

DocNullPath == JObj([paths |-> JEntries(<<[key |-> <<"/", "users">>, val |-> JNull]>>)])
DocNullRpc ==
    JObj([paths |-> JEntries(<<UsersPath, [key |-> <<"/", "rpc", "/", "f">>, val |-> JNull]>>)])
DocTextPath ==
    JObj([paths |-> JEntries(<<[key |-> <<"/", "users">>, val |-> JStr(<<"x">>)],
                               [key |-> <<"/", "rpc", "/", "f">>, val |-> JNum(1)],
                               AccountsPath>>)])
DocNullOperation ==
    JObj([paths |-> JEntries(<<PathEntry(<<"/", "users">>,
                                         <<[key |-> "get", val |-> JNull]>>)>>)])
DocBareOperation ==
    JObj([paths |-> JEntries(<<PathEntry(<<"/", "users">>, <<BareOperation>>),
                               PathEntry(<<"/", "rpc", "/", "f">>, <<BareOperation>>)>>)])
DocSlashTwice == JObj([paths |-> JEntries(<<UsersPath, UsersSlashPath, DeleteUserPath>>)])
DocRpcSlash ==
    JObj([paths |-> JEntries(<<DeleteUserPath,
              PathEntry(<<"/", "rpc", "/", "delete", "_", "user", "/">>,
                        <<OpEntry("post", <<>>)>>)>>)])

OddDocs ==
    {DocNullPath, DocNullRpc, DocTextPath, DocNullOperation, DocBareOperation, DocSlashTwice,
     DocRpcSlash, JObj([paths |-> JNull]), JStr(<<"x">>), JNum(0)}

ParseCalls ==
    {[fn |-> f, spec |-> d] :
        f \in {"parseOpenAPISpec", "parseTwice"}, d \in Docs \cup OddDocs \cup {JNull, JUndef}}

Catalogs == {ParseOpenAPISpec(d).v : d \in Docs}

SeqRange(s) == {s[i] : i \in 1..Len(s)}

CatalogTables == UNION {SeqRange(c.tables) : c \in Catalogs}
CatalogFunctions == UNION {SeqRange(c.functions) : c \in Catalogs}

\* Access results as testTableAccess builds them, then as the row-count step of
\* runAudit may update them.
ProbedAccess == {AfterOptions(AfterSelect(AccessResults0, so), oo) :
                    so \in SelectOutcomes, oo \in OptionsOutcomes}

CountedAccess ==
    ProbedAccess
    \cup {[a EXCEPT !.f.rowCount = CountFromResponse(co, TRUE)] :
             a \in {p \in ProbedAccess : p.f.select.b},
             co \in {c \in CountOutcomes \ {NetworkFailure} :
                       CountFromResponse(c, TRUE) # JNull}}

ErrorOnly == JObj([error |-> JStr(<<"Failed to fetch">>)])

TableAnalysisCalls ==
    {[fn |-> "analyzeTableSecurity", table |-> t, accessResults |-> a] :
        t \in CatalogTables, a \in CountedAccess \cup {JUndef, ErrorOnly}}

RpcResults == {RpcResult(o) : o \in RpcOutcomes}

FunctionAnalysisCalls ==
    {[fn |-> "analyzeFunctionSecurity", func |-> f, testResults |-> r] :
        f \in CatalogFunctions, r \in RpcResults \cup {JUndef, ErrorOnly}}

MaxPerSeverity == 9

Repeat(x, n) == [i \in 1..n |-> x]

SeverityIssue(severity) == [severity |-> severity, type |-> "finding"]

\* Issue lists as generateReport passes them: sorted by severity.
ScoreCalls ==
    {[fn |-> "calculateRiskScore",
      issues |-> Repeat(SeverityIssue("critical"), c) \o Repeat(SeverityIssue("high"), h)
                 \o Repeat(SeverityIssue("medium"), m) \o Repeat(SeverityIssue("low"), l)] :
        c \in 0..MaxPerSeverity, h \in 0..MaxPerSeverity,
        m \in 0..MaxPerSeverity, l \in 0..MaxPerSeverity}

\* Probe results for a report: a few access results per table of the catalog (or no
\* entry), a few results per function (or no entry).
ReportAccess ==
    {AfterOptions(AfterSelect(AccessResults0, Response(200, JStr(<<"0-0", "/", "50">>))),
                  OptionsResponse(JNull, JStr(<<"get", ",", "post", ",", "patch", ",", "delete">>))),
     AfterOptions(AfterSelect(AccessResults0, Response(200, JStr(<<"0-0", "/", "20000">>))),
                  OptionsResponse(JStr(<<"GET", ",", "POST">>), JNull)),
     AfterOptions(AfterSelect(AccessResults0, Response(200, JNull)), NetworkFailure),
     AfterOptions(AfterSelect(AccessResults0, Response(401, JNull)),
                  OptionsResponse(JNull, JNull))}

ReportRpc == {RpcResult([k |-> "response", status |-> s]) : s \in {200, 401, 404}}

MapsOver(names, values) == UNION {[S -> values] : S \in SUBSET names}

TableNames(parsedData) == {parsedData.tables[i].name : i \in 1..Len(parsedData.tables)}
FunctionNames(parsedData) ==
    {parsedData.functions[i].name : i \in 1..Len(parsedData.functions)}

SampleBucket ==
    JObj([id |-> JStr(<<"avatars">>), name |-> JStr(<<"avatars">>), public |-> JBool(TRUE),
          access |-> AfterBucketPublic(AfterBucketList(BucketAccess0,
                        [k |-> "response", status |-> 200, files |-> 1]),
                        [k |-> "response", status |-> 200])])

SampleJwtInfo ==
    JObj(DecodeJWT(JStr(<<"e30", ".",
        "eyJyb2xlIjoiYW5vbiIsImlzcyI6Imh0dHBzOi8vYWJjLnN1cGFiYXNlLmNvL2F1dGgvdjEiLCJleHAiOjIwMH0",
        ".", "e30">>), 100000))

AdditionalData(buckets) ==
    [jwtInfo |-> SampleJwtInfo, buckets |-> buckets, totalPublicRecords |-> JUndef]

ReportInputs ==
    UNION {{[parsedData |-> c, tableAccessResults |-> t, functionTestResults |-> f,
             additionalData |-> AdditionalData(b)] :
               t \in MapsOver(TableNames(c), ReportAccess),
               f \in MapsOver(FunctionNames(c), ReportRpc),
               b \in {JUndef, JArr(<<>>), JArr(<<SampleBucket>>)}} : c \in Catalogs}

ReportCalls ==
    {[fn |-> "generateReport", parsedData |-> i.parsedData,
      tableAccessResults |-> i.tableAccessResults,
      functionTestResults |-> i.functionTestResults,
      additionalData |-> i.additionalData] : i \in ReportInputs}

\* generateRemediations as generateReport calls it: on the sorted issues of a report.
RemediationCalls ==
    {[fn |-> "generateRemediations",
      issues |-> AllIssues(i.parsedData, i.tableAccessResults, i.functionTestResults,
                           i.additionalData).v,
      tables |-> TablesWithAccess(i.parsedData, i.tableAccessResults)] :
        i \in {j \in ReportInputs :
                 ~IsThrow(AllIssues(j.parsedData, j.tableAccessResults,
                                    j.functionTestResults, j.additionalData))}}

\* The texts discovery is run on.
ProjectHost == <<"https://", "abc", ".supabase.co">>
RestEndpoint == <<"https://", "api.example", "/rest/v1/", "users">>
LongJwt ==
    <<"eyJhbGciOiJIUzI1NiJ9", ".",
      "eyJyb2xlIjoiYW5vbiIsImlzcyI6Imh0dHBzOi8vYWJjLnN1cGFiYXNlLmNvL2F1dGgvdjEiLCJleHAiOjIwMH0",
      ".", "sig">>
ShortJwt == <<"eyJhbGciOiJIUzI1NiJ9", ".", "eyJyb2xlIjoiIn0", ".", "sig">>
PublishableKey == <<"sb_publishable_", "key">>

PageFragments ==
    {Fragment("literal", ProjectHost, <<>>), Fragment("literal", ProjectHost \o <<"/">>, <<>>),
     Fragment("literal", <<>>, LongJwt), Fragment("literal", <<>>, ShortJwt),
     Fragment("envUrl", ProjectHost, <<>>), Fragment("envUrl", RestEndpoint, <<>>),
     Fragment("envKey", <<>>, LongJwt), Fragment("envKey", <<>>, PublishableKey),
     Fragment("createClient", ProjectHost, PublishableKey),
     Fragment("bundledPair", ProjectHost, LongJwt),
     Fragment("mention", <<>>, <<>>), Fragment("other", <<>>, <<>>),
     Fragment("scriptSrc", <<"/", "assets/", "app", ".js">>, <<>>),
     Fragment("scriptSrc", ProjectHost \o <<"/storage/v1/", "x", ".js">>, <<>>),
     Fragment("linkHref", ProjectHost \o <<"/storage/v1/", "font">>, <<>>)}

MaxFragments == 2

Pages == UNION {[1..n -> PageFragments] : n \in 1..MaxFragments}

FrontendUrls == {<<"shop.example">>, <<"https://", "shop.example">>}

AssetResponse(ok, length, content) ==
    [k |-> "response", ok |-> ok, length |-> length, content |-> content]

AssetOutcomes ==
    {Failed(<<"Failed to fetch">>), AssetResponse(FALSE, 2000, <<>>),
     AssetResponse(TRUE, 40, <<Fragment("literal", ProjectHost, <<>>)>>),
     AssetResponse(TRUE, 2000, <<Fragment("literal", <<>>, LongJwt)>>),
     AssetResponse(TRUE, 2000, <<Fragment("literal", ProjectHost, <<>>)>>),
     AssetResponse(TRUE, 2000, <<Fragment("other", <<>>, <<>>)>>)}

\* The assets the escalation asks for on a page: none when it does not run.
AssetsAsked(page, baseUrl) ==
    IF NeedsEscalation(ScanPage(Detector0, page))
    THEN Len(FilesToFetch(page, baseUrl)) ELSE 0

\* A page with the project URL and twelve scripts, and what its assets may come to: one
\* of them holds the key, or none does; the others fail or time out.
ScriptNames == <<"a", "b", "c", "d", "e", "f", "g", "h", "i", "j", "k", "l">>

ManyScriptsPage ==
    <<Fragment("envUrl", ProjectHost, <<>>)>>
    \o [i \in 1..Len(ScriptNames) |->
           Fragment("scriptSrc", <<"/", "assets/", ScriptNames[i], ".js">>, <<>>)]

KeyAsset == AssetResponse(TRUE, 2000, <<Fragment("literal", <<>>, LongJwt)>>)

ManyAssetOutcomes ==
    {[i \in 1..MAX_JS_FILES |->
         IF i = k THEN KeyAsset ELSE IF i % 2 = 1 THEN NetworkFailure ELSE Aborted] :
        k \in 0..MAX_JS_FILES}

ManyScriptsCalls ==
    {[fn |-> "detectFromUrl", frontendUrl |-> <<"shop.example">>, page |-> Ok(ManyScriptsPage),
      outcomes |-> o] : o \in ManyAssetOutcomes}

DetectCalls ==
    {[fn |-> "detectFromUrl", frontendUrl |-> <<"shop.example">>,
      page |-> Throw(NO_CONTENT_MESSAGE), outcomes |-> <<>>],
     [fn |-> "detectFromUrl", frontendUrl |-> <<"shop.example">>,
      page |-> Ok(<<>>), outcomes |-> <<>>]}
    \cup UNION {UNION {{[fn |-> "detectFromUrl", frontendUrl |-> u, page |-> Ok(p),
                         outcomes |-> o] :
                            o \in [1..AssetsAsked(p, NormalizeUrl(u)) -> AssetOutcomes]} :
                       p \in Pages} : u \in FrontendUrls}
    \cup ManyScriptsCalls


TableProbeCalls ==
    {[fn |-> "testTableAccess", selectOutcome |-> so, optionsOutcome |-> oo] :
        so \in SelectOutcomes, oo \in OptionsOutcomes}

ProbeStatuses == {200, 204, 400, 401, 403, 404, 422, 500}

RpcProbeCalls ==
    {[fn |-> "testRPCFunction", outcome |-> o] :
        o \in {NetworkFailure, Failed(<<"CORS">>)}
              \cup {[k |-> "response", status |-> s] : s \in ProbeStatuses}}

\* What one fetch of a page may come to.
WordsPage == <<Fragment("other", <<>>, <<>>)>>
ClientPage == <<Fragment("createClient", ProjectHost, LongJwt)>>

PageOutcomes ==
    {NetworkFailure, Aborted, AssetResponse(FALSE, 2000, WordsPage),
     AssetResponse(TRUE, 40, WordsPage), AssetResponse(TRUE, 0, <<>>),
     AssetResponse(TRUE, 2000, ClientPage)}

AcquireCalls ==
    {[fn |-> "fetchPageContent", url |-> <<"https://", "shop.example">>, outcomes |-> o] :
        o \in [1..PROXY_COUNT + 1 -> PageOutcomes \ {AssetResponse(TRUE, 0, <<>>)}]}
    \cup {[fn |-> "fetchPageContent", url |-> <<"http://", "shop.example", "/", "app">>,
           outcomes |-> [k \in 1..PROXY_COUNT + 1 |->
                            IF k <= n THEN Aborted ELSE AssetResponse(TRUE, 0, <<>>)]] :
              n \in 0..PROXY_COUNT}

Pending == [k |-> "pending"]
Returned(v) == [k |-> "returned", v |-> v]

FnCalls ==
    DecodeCalls \cup ParseCalls \cup TableAnalysisCalls \cup FunctionAnalysisCalls
    \cup ScoreCalls \cup ReportCalls \cup RemediationCalls \cup DetectCalls
    \cup TableProbeCalls \cup RpcProbeCalls \cup AcquireCalls

(***************************************************************************)
(* App.runAudit: one audit of a project in manual mode.  Each action is    *)
(* one step of runAudit (the validation of the form, a client call with    *)
(* the outcomes of its requests, or an analyzer call).                     *)
(***************************************************************************)
PROJECT_URL == ProjectHost

AnonToken == JStr(LongJwt)

\* What the user may have typed into the two fields of the manual form.
FormUrls ==
    {<<>>, <<" ">>, PROJECT_URL, PROJECT_URL \o <<"/", " ">>,
     <<"http://", "abc", ".supabase.co">>, <<"abc", ".supabase.co">>}

FormKeys == {<<>>, LongJwt, PublishableKey, <<"e30", ".", "e30", ".", "e30">>}

FormInputs == [projectUrl : FormUrls, anonKey : FormKeys]

\* value.trim()
RECURSIVE Trim(_)
Trim(text) ==
    IF text # <<>> /\ Head(text) = " " THEN Trim(Tail(text))
    ELSE IF text # <<>> /\ text[Len(text)] = " " THEN Trim(SubSeq(text, 1, Len(text) - 1))
    ELSE text

\* new URL(text).protocol, or the TypeError of a text without a scheme.
Protocol(text) ==
    IF text # <<>> /\ text[1] \in URL_SCHEMES THEN Ok(text[1])
    ELSE Throw(<<"Invalid URL">>)

Invalid(message) == [k |-> "invalid", message |-> <<message>>]

\* validateInputs in manual mode (app.js lines 82-118): the validated inputs, or the
\* message shown when it returns null.
ValidateInputs(form) ==
    LET projectUrl == Trim(form.projectUrl)
        anonKey == Trim(form.anonKey)
    IN IF projectUrl = <<>> THEN Invalid("Please enter a Supabase project URL")
       ELSE IF IsThrow(Protocol(projectUrl)) THEN Invalid("Invalid project URL format")
       ELSE IF Protocol(projectUrl).v # "https://"
       THEN Invalid("Project URL must use HTTPS")
       ELSE IF anonKey = <<>> THEN Invalid("Please enter your anon/publishable key")
       ELSE IF ~HasKeyPrefix(anonKey)
       THEN Invalid("Invalid anon key format (should start with \"eyJ\" or \"sb_publishable_\")")
       ELSE Ok([projectUrl |-> StripTrailingSlashes(projectUrl), anonKey |-> JStr(anonKey)])

AuditClock == 100000

\* One fetch(url, {method, headers, body}) as the remote sees it.
Request(method, url, apikey, body) ==
    [method |-> method, url |-> url, apikey |-> apikey, body |-> body]

RestUrl(projectUrl, rest) == projectUrl \o <<"/rest/v1", "/">> \o rest
StorageUrl(projectUrl, rest) == projectUrl \o <<"/storage/v1", "/">> \o rest

EmptyBody == JStr(<<"{}">>)
ListBody == JStr(<<"{\"limit\":1,\"prefix\":\"\"}">>)

\* A variant of the operator below that asks a relay for the description.
SpecRequestByRelay(projectUrl, anonKey) ==
    Request("GET", ProxyUrl(1, RestUrl(projectUrl, <<>>)), anonKey, JUndef)

SpecRequest(projectUrl, anonKey) == Request("GET", RestUrl(projectUrl, <<>>), anonKey, JUndef)

SelectRequest(projectUrl, anonKey, tableName) ==
    Request("GET", RestUrl(projectUrl, tableName \o <<"?", "limit=0">>), anonKey, JUndef)

CapabilityRequest(projectUrl, anonKey, tableName) ==
    Request("OPTIONS", RestUrl(projectUrl, tableName), anonKey, JUndef)

\* A variant of the table probe that tests insert by sending a POST to the table.
TableProbeRequestsWithWrite(projectUrl, anonKey, tableName) ==
    <<SelectRequest(projectUrl, anonKey, tableName),
      Request("POST", RestUrl(projectUrl, tableName), anonKey, EmptyBody)>>

\* The two requests of testTableAccess, in order.
TableProbeRequests(projectUrl, anonKey, tableName) ==
    <<SelectRequest(projectUrl, anonKey, tableName),
      CapabilityRequest(projectUrl, anonKey, tableName)>>

HeadCountRequest(projectUrl, anonKey, tableName) ==
    Request("HEAD", RestUrl(projectUrl, tableName \o <<"?", "select=*">>), anonKey, JUndef)

FallbackCountRequest(projectUrl, anonKey, tableName) ==
    Request("GET", RestUrl(projectUrl, tableName \o <<"?", "select=*&limit=0">>), anonKey, JUndef)

RpcRequest(projectUrl, anonKey, functionName) ==
    Request("POST", RestUrl(projectUrl, <<"rpc", "/">> \o functionName), anonKey, EmptyBody)

BucketsRequest(projectUrl, anonKey) ==
    Request("GET", StorageUrl(projectUrl, <<"bucket">>), anonKey, JUndef)

BucketListRequest(projectUrl, anonKey, bucketId) ==
    Request("POST", StorageUrl(projectUrl, <<"object", "/", "list", "/">> \o bucketId),
            anonKey, ListBody)

BucketPublicRequest(projectUrl, bucketId) ==
    Request("GET", StorageUrl(projectUrl, <<"object", "/", "public", "/">> \o bucketId \o <<"/">>),
            JUndef, JUndef)

PoliciesRequest(projectUrl, anonKey) ==
    Request("GET", RestUrl(projectUrl, <<"pg_policies", "?", "limit=100">>), anonKey, JUndef)

PoliciesRpcRequest(projectUrl, anonKey) ==
    Request("POST", RestUrl(projectUrl, <<"rpc", "/", "get_policies">>), anonKey, EmptyBody)

\* What the project may answer during one audit.
JsonResponse(status, statusText, body) ==
    [k |-> "response", status |-> status, statusText |-> statusText, body |-> body]

AuditDocs == {DocNoPaths, DocUsers, DocTwo}

SpecOutcomes ==
    {NetworkFailure, JsonResponse(401, "Unauthorized", JNull),
     JsonResponse(200, "OK", Throw(<<"Unexpected token in JSON">>))}
    \cup {JsonResponse(200, "OK", d) : d \in AuditDocs}

AuditSelectOutcomes ==
    {NetworkFailure, Response(200, JStr(<<"0-0", "/", "50">>)), Response(401, JNull)}

AuditOptionsOutcomes ==
    {NetworkFailure, OptionsResponse(JNull, JNull),
     OptionsResponse(JNull, JStr(<<"get", ",", "post", ",", "patch", ",", "delete">>))}

AuditCountOutcomes ==
    {NetworkFailure, Response(200, JNull), Response(206, JStr(<<"0-24", "/", "20000">>))}

AuditRpcOutcomes ==
    {NetworkFailure} \cup {[k |-> "response", status |-> s] : s \in {200, 401}}

AvatarsBucket ==
    JObj([id |-> JStr(<<"avatars">>), name |-> JStr(<<"avatars">>), public |-> JBool(FALSE)])

BucketsOutcomes ==
    {NetworkFailure, JsonResponse(400, "Bad Request", JNull),
     JsonResponse(200, "OK", JArr(<<>>)), JsonResponse(200, "OK", JArr(<<AvatarsBucket>>)),
     JsonResponse(200, "OK", JArr(<<JNull, AvatarsBucket>>)),
     JsonResponse(200, "OK", JObj([message |-> JStr(<<"ok">>)]))}

BucketListOutcomes ==
    {NetworkFailure, [k |-> "response", status |-> 200, files |-> 1],
     [k |-> "response", status |-> 400, files |-> 0]}

BucketPublicOutcomes ==
    {NetworkFailure} \cup {[k |-> "response", status |-> s] : s \in {200, 400}}

Policies == JArr(<<JObj([policyname |-> JStr(<<"p1">>)])>>)

PoliciesOutcomes ==
    {NetworkFailure, JsonResponse(404, "Not Found", JNull), JsonResponse(200, "OK", Policies)}

\* map.set(key, v)
MapSet(m, key, v) == [x \in DOMAIN m \cup {key} |-> IF x = key THEN v ELSE m[x]]

\* The variables of runAudit before it assigns them; the empty text stands for the
\* project URL that is not assigned yet.
Locals0 ==
    [projectUrl |-> <<>>, anonKey |-> JUndef, jwtInfo |-> JUndef, spec |-> JUndef,
     parsedData |-> JUndef, i |-> 0, tableAccessResults |-> <<>>, totalPublicRecords |-> 0,
     tableRowCounts |-> <<>>, functionTestResults |-> <<>>, bucketList |-> <<>>,
     buckets |-> <<>>, realtime |-> JNull, rlsPolicies |-> JUndef]

Form == [k |-> "form"]
ShowError(message) == [k |-> "error", message |-> message]
RenderReport(report) == [k |-> "report", report |-> report]

NO_CATALOG_MESSAGE ==
    <<"No tables or functions found. The project may not have any public API exposed, or the anon key may be invalid.">>

\* The message the catch block of runAudit shows (app.js lines 294-310).
ErrorMessage(message) ==
    <<"Failed to analyze the Supabase project. ">>
    \o (IF Includes(message, "Failed to fetch")
        THEN <<"Could not connect to the server. Check the URL and try again.">>
        ELSE IF Includes(message, "401") \/ Includes(message, "403")
        THEN <<"Authentication failed. Check your anon key.">>
        ELSE IF Includes(message, "CORS")
        THEN <<"Cross-origin request blocked. The Supabase project may have restrictive CORS settings.">>
        ELSE message)

\* fetchOpenAPISpec: the description, or the exception it throws.
FetchedSpec(outcome) ==
    IF outcome.k = "failed" THEN Throw(outcome.msg)
    ELSE IF ~ResponseOk(outcome.status)
    THEN Throw(<<"Failed to fetch", " OpenAPI spec: ", ToString(outcome.status), " ",
                 outcome.statusText>>)
    ELSE IF IsThrow(outcome.body) THEN outcome.body
    ELSE Ok(outcome.body)

\* access && access.select
CanSelect(access) == Truthy(access) /\ Truthy(GetProp(access, "select"))

\* The first table at index from or later that the row-count loop counts, or 0.
CountIndex(l, from) ==
    LET Counted(i) == CanSelect(MapGet(l.tableAccessResults, l.parsedData.tables[i].name))
        rest == {i \in from..Len(l.parsedData.tables) : Counted(i)}
    IN IF rest = {} THEN 0 ELSE CHOOSE i \in rest : \A j \in rest : i <= j

\* Where runAudit continues: the step it awaits next and the loop index there.
At(step, i) == [pc |-> step, i |-> i]

ToBuckets(l) == At("listStorageBuckets", 0)

ToFunctions(l, from) ==
    IF from <= Len(l.parsedData.functions) THEN At("testRPCFunction", from) ELSE ToBuckets(l)

ToCounts(l, from) ==
    IF CountIndex(l, from) > 0 THEN At("fetchTableRowCount", CountIndex(l, from))
    ELSE ToFunctions(l, 1)

ToTables(l, from) ==
    IF from <= Len(l.parsedData.tables) THEN At("testTableAccess", from) ELSE ToCounts(l, 1)

\* The loop over bucketList (app.js lines 249-254): reading bucket.id of an element that
\* is null throws, and the catch of line 255 ends the loop.
ToBucketProbes(l, from) ==
    IF from <= Len(l.bucketList) /\ l.bucketList[from].k \notin {"null", "undefined"}
    THEN At("testBucketAccess", from)
    ELSE At("checkRealtimeConfig", 0)

\* The row count one fetchTableRowCount call returns (lines 335-372).
HeadCount(headOutcome) ==
    IF headOutcome.k = "failed" THEN JNull ELSE CountFromResponse(headOutcome, TRUE)

NeedsFallback(headOutcome) == headOutcome.k # "failed" /\ HeadCount(headOutcome) = JNull

FetchedCount(headOutcome, fallbackOutcome) ==
    IF ~NeedsFallback(headOutcome) THEN HeadCount(headOutcome)
    ELSE IF fallbackOutcome.k = "failed" THEN JNull
    ELSE CountFromResponse(fallbackOutcome, FALSE)

CountRequests(projectUrl, anonKey, tableName, headOutcome) ==
    <<HeadCountRequest(projectUrl, anonKey, tableName)>>
    \o (IF NeedsFallback(headOutcome)
        THEN <<FallbackCountRequest(projectUrl, anonKey, tableName)>> ELSE <<>>)

\* The row-count loop body (app.js lines 216-224): a count updates the access result.
WithCount(l, tableName, count) ==
    IF count = JNull THEN l
    ELSE [l EXCEPT !.tableRowCounts = MapSet(@, tableName, count),
                   !.totalPublicRecords = @ + count.n,
                   !.tableAccessResults[tableName].f.rowCount = count]

\* listStorageBuckets' return value as the loop of runAudit can iterate it.
ListedBuckets(outcome) ==
    IF outcome.k = "response" /\ ResponseOk(outcome.status) /\ outcome.body.k = "arr"
    THEN outcome.body.v ELSE <<>>

\* bucket.id || bucket.name
BucketId(bucket) == OrElse(GetProp(bucket, "id"), GetProp(bucket, "name")).s

\* { ...bucket, access }
WithAccess(bucket, access) ==
    JObj([x \in DOMAIN bucket.f \cup {"access"} |->
             IF x = "access" THEN access ELSE bucket.f[x]])

RealtimeConfig ==
    JObj([enabled |-> JStr(<<"unknown">>), accessibleTables |-> JArr(<<>>),
          note |-> JStr(<<"Realtime endpoint check skipped (CORS restriction)">>)])

\* response.ok and a body that parses
Answered(outcome) ==
    outcome.k = "response" /\ ResponseOk(outcome.status) /\ ~IsThrow(outcome.body)

PolicyRequests(projectUrl, anonKey, getOutcome) ==
    <<PoliciesRequest(projectUrl, anonKey)>>
    \o (IF Answered(getOutcome) THEN <<>> ELSE <<PoliciesRpcRequest(projectUrl, anonKey)>>)

PolicyResult(getOutcome, postOutcome) ==
    IF Answered(getOutcome) THEN getOutcome.body
    ELSE IF Answered(postOutcome) THEN postOutcome.body
    ELSE JNull

\* The additionalData argument of generateReport (app.js lines 278-285).
AuditData(l) ==
    [jwtInfo |-> l.jwtInfo, buckets |-> JArr(l.buckets), realtime |-> l.realtime,
     rlsPolicies |-> l.rlsPolicies, totalPublicRecords |-> JNum(l.totalPublicRecords),
     tableRowCounts |-> l.tableRowCounts]

auditVars == <<pc, locals, requests, currentReport, screen, detector>>

AuditInit ==
    /\ pc = "validateInputs"
    /\ locals = Locals0
    /\ requests = <<>>
    /\ currentReport = JNull
    /\ screen = Form
    /\ call = [fn |-> "runAudit"]
    /\ ret = Pending
    /\ detector = Detector0

\* runAudit continues with locals l at the step and index of target.
Continue(l, target) ==
    /\ locals' = [l EXCEPT !.i = target.i]
    /\ pc' = target.pc
    /\ UNCHANGED <<currentReport, screen>>

\* runAudit ends with an error message on the screen.
Stop(message) ==
    /\ screen' = ShowError(message)
    /\ pc' = "done"
    /\ UNCHANGED <<locals, currentReport>>

AfterValidation(inputs) ==
    IF inputs.k = "invalid" THEN Stop(inputs.message)
    ELSE Continue([locals EXCEPT !.projectUrl = inputs.v.projectUrl,
                                 !.anonKey = inputs.v.anonKey], At("decodeJWT", 0))

\* app.js lines 125-128 and 171-175
AuditValidateInputs ==
    /\ pc = "validateInputs"
    /\ \E form \in FormInputs : AfterValidation(ValidateInputs(form))
    /\ UNCHANGED <<requests, call, ret, detector>>

\* app.js line 180
AuditDecodeJWT ==
    /\ pc = "decodeJWT"
    /\ Continue([locals EXCEPT !.jwtInfo = JObj(DecodeJWT(locals.anonKey, AuditClock))],
                At("fetchOpenAPISpec", 0))
    /\ UNCHANGED <<requests, call, ret, detector>>

AfterFetchSpec(fetched) ==
    IF IsThrow(fetched) THEN Stop(ErrorMessage(fetched.msg))
    ELSE Continue([locals EXCEPT !.spec = fetched.v], At("parseOpenAPISpec", 0))

\* app.js line 184
AuditFetchOpenAPISpec ==
    /\ pc = "fetchOpenAPISpec"
    /\ requests' = Append(requests, SpecRequest(locals.projectUrl, locals.anonKey))
    /\ \E outcome \in SpecOutcomes : AfterFetchSpec(FetchedSpec(outcome))
    /\ UNCHANGED <<call, ret, detector>>

IsEmptyCatalog(parsedData) ==
    Len(parsedData.tables) = 0 /\ Len(parsedData.functions) = 0

WithCatalog(l, parsedData) == [l EXCEPT !.parsedData = parsedData]

AfterParse(parsed) ==
    IF IsThrow(parsed) THEN Stop(ErrorMessage(parsed.msg))
    ELSE IF IsEmptyCatalog(parsed.v) THEN Stop(NO_CATALOG_MESSAGE)
    ELSE Continue(WithCatalog(locals, parsed.v), ToTables(WithCatalog(locals, parsed.v), 1))

\* app.js lines 188-193
AuditParseOpenAPISpec ==
    /\ pc = "parseOpenAPISpec"
    /\ AfterParse(ParseOpenAPISpec(locals.spec))
    /\ UNCHANGED <<requests, call, ret, detector>>

TableAt(l) == l.parsedData.tables[l.i]
FunctionAt(l) == l.parsedData.functions[l.i]

WithTableAccess(l, access) ==
    [l EXCEPT !.tableAccessResults = MapSet(@, TableAt(l).name, access)]

\* A variant of the continuation below in which a table probe that recorded an error
\* ends the scan of the tables.
AfterTableProbeStopOnError(l) ==
    Continue(l, IF GetProp(MapGet(l.tableAccessResults, TableAt(l).name), "error") # JNull
                THEN ToFunctions(l, 1) ELSE ToTables(l, l.i + 1))

AfterTableProbe(l) == Continue(l, ToTables(l, l.i + 1))

\* app.js lines 199-206
AuditTestTableAccess ==
    /\ pc = "testTableAccess"
    /\ requests' = requests \o TableProbeRequests(locals.projectUrl, locals.anonKey,
                                                  TableAt(locals).name)
    /\ \E selectOutcome \in AuditSelectOutcomes, optionsOutcome \in AuditOptionsOutcomes :
          AfterTableProbe(WithTableAccess(locals,
              AfterOptions(AfterSelect(AccessResults0, selectOutcome), optionsOutcome)))
    /\ UNCHANGED <<call, ret, detector>>

AfterCount(l) == Continue(l, ToCounts(l, l.i + 1))

\* app.js lines 213-228
AuditFetchTableRowCount ==
    /\ pc = "fetchTableRowCount"
    /\ \E headOutcome \in AuditCountOutcomes, fallbackOutcome \in AuditCountOutcomes :
          /\ requests' = requests \o CountRequests(locals.projectUrl, locals.anonKey,
                                                   TableAt(locals).name, headOutcome)
          /\ AfterCount(WithCount(locals, TableAt(locals).name,
                                  FetchedCount(headOutcome, fallbackOutcome)))
    /\ UNCHANGED <<call, ret, detector>>

WithFunctionResult(l, result) ==
    [l EXCEPT !.functionTestResults = MapSet(@, FunctionAt(l).name, result)]

AfterFunctionProbe(l) == Continue(l, ToFunctions(l, l.i + 1))

\* app.js lines 234-241
AuditTestRPCFunction ==
    /\ pc = "testRPCFunction"
    /\ requests' = Append(requests, RpcRequest(locals.projectUrl, locals.anonKey,
                                               FunctionAt(locals).name))
    /\ \E outcome \in AuditRpcOutcomes :
          AfterFunctionProbe(WithFunctionResult(locals, RpcResult(outcome)))
    /\ UNCHANGED <<call, ret, detector>>

AfterBucketListing(l) == Continue(l, ToBucketProbes(l, 1))

\* app.js lines 246-248
AuditListStorageBuckets ==
    /\ pc = "listStorageBuckets"
    /\ requests' = Append(requests, BucketsRequest(locals.projectUrl, locals.anonKey))
    /\ \E outcome \in BucketsOutcomes :
          AfterBucketListing([locals EXCEPT !.bucketList = ListedBuckets(outcome)])
    /\ UNCHANGED <<call, ret, detector>>

AfterBucketProbe(l) == Continue(l, ToBucketProbes(l, l.i + 1))

\* app.js lines 249-254
AuditTestBucketAccess ==
    /\ pc = "testBucketAccess"
    /\ requests' = requests
          \o <<BucketListRequest(locals.projectUrl, locals.anonKey,
                                 BucketId(locals.bucketList[locals.i])),
               BucketPublicRequest(locals.projectUrl, BucketId(locals.bucketList[locals.i]))>>
    /\ \E listOutcome \in BucketListOutcomes, publicOutcome \in BucketPublicOutcomes :
          AfterBucketProbe([locals EXCEPT !.buckets =
              Append(@, WithAccess(locals.bucketList[locals.i],
                         AfterBucketPublic(AfterBucketList(BucketAccess0, listOutcome),
                                           publicOutcome)))])
    /\ UNCHANGED <<call, ret, detector>>

\* app.js lines 262-266
AuditCheckRealtimeConfig ==
    /\ pc = "checkRealtimeConfig"
    /\ Continue([locals EXCEPT !.realtime = RealtimeConfig], At("queryRLSPolicies", 0))
    /\ UNCHANGED <<requests, call, ret, detector>>

\* app.js line 270
AuditQueryRLSPolicies ==
    /\ pc = "queryRLSPolicies"
    /\ \E getOutcome \in PoliciesOutcomes, postOutcome \in PoliciesOutcomes :
          /\ requests' = requests \o PolicyRequests(locals.projectUrl, locals.anonKey,
                                                    getOutcome)
          /\ Continue([locals EXCEPT !.rlsPolicies = PolicyResult(getOutcome, postOutcome)],
                      At("generateReport", 0))
    /\ UNCHANGED <<call, ret, detector>>

AfterReport(report) ==
    IF IsThrow(report) THEN Stop(ErrorMessage(report.msg))
    ELSE /\ currentReport' = report.v
         /\ screen' = RenderReport(report.v)
         /\ pc' = "done"
         /\ UNCHANGED locals

\* app.js lines 274-292
AuditGenerateReport ==
    /\ pc = "generateReport"
    /\ AfterReport(GenerateReport(locals.parsedData, locals.tableAccessResults,
                                  locals.functionTestResults, AuditData(locals)))
    /\ UNCHANGED <<requests, call, ret, detector>>

\* The requests one step of runAudit may send, in order.
StepRequests(l) ==
    CASE pc = "fetchOpenAPISpec" -> <<SpecRequest(l.projectUrl, l.anonKey)>>
      [] pc = "testTableAccess" ->
            TableProbeRequests(l.projectUrl, l.anonKey, TableAt(l).name)
      [] pc = "fetchTableRowCount" ->
            <<HeadCountRequest(l.projectUrl, l.anonKey, TableAt(l).name),
              FallbackCountRequest(l.projectUrl, l.anonKey, TableAt(l).name)>>
      [] pc = "testRPCFunction" -> <<RpcRequest(l.projectUrl, l.anonKey, FunctionAt(l).name)>>
      [] pc = "listStorageBuckets" -> <<BucketsRequest(l.projectUrl, l.anonKey)>>
      [] pc = "testBucketAccess" ->
            <<BucketListRequest(l.projectUrl, l.anonKey, BucketId(l.bucketList[l.i])),
              BucketPublicRequest(l.projectUrl, BucketId(l.bucketList[l.i]))>>
      [] pc = "queryRLSPolicies" ->
            <<PoliciesRequest(l.projectUrl, l.anonKey),
              PoliciesRpcRequest(l.projectUrl, l.anonKey)>>
      [] OTHER -> <<>>

\* A request of the current step is never answered: fetch is called without a signal or
\* a timer (part_002 lines 16, 60, 84, 124, 138, 178, 251, 290, 310, 337, 354), so its promise
\* never settles and runAudit stays at the await.
AuditNeverAnswered ==
    /\ \E k \in 1..Len(StepRequests(locals)) :
          requests' = requests \o SubSeq(StepRequests(locals), 1, k)
    /\ pc' = "awaiting"
    /\ UNCHANGED <<locals, currentReport, screen, call, ret, detector>>

Next ==
    \/ AuditValidateInputs
    \/ AuditDecodeJWT
    \/ AuditFetchOpenAPISpec
    \/ AuditParseOpenAPISpec
    \/ AuditTestTableAccess
    \/ AuditFetchTableRowCount
    \/ AuditTestRPCFunction
    \/ AuditListStorageBuckets
    \/ AuditTestBucketAccess
    \/ AuditCheckRealtimeConfig
    \/ AuditQueryRLSPolicies
    \/ AuditGenerateReport
    \/ AuditNeverAnswered

Spec == AuditInit /\ [][Next]_vars

\* runAudit is one async function: the event loop resumes it whenever the promise it
\* awaits has settled.
SpecLive == Spec /\ WF_vars(Next)

(***************************************************************************)
(* App.runAudit in detect mode: the project URL and the key come from      *)
(* SupabaseDetector.detectFromUrl on the front-end URL of the form.        *)
(***************************************************************************)
\* What the user may have typed into the front-end URL field.
FrontendInputs ==
    {<<>>, <<"http://", "shop.example">>, <<"shop", " ", "example">>}

\* validateInputs in detect mode (app.js lines 61-80): the front-end URL with its
\* scheme, or the message shown when it returns null.  new URL throws on a host with
\* a space in it.
ValidateDetectInputs(text) ==
    LET frontendUrl == Trim(text)
        withScheme == IF frontendUrl # <<>> /\ frontendUrl[1] \in URL_SCHEMES
                      THEN frontendUrl ELSE <<"https://">> \o frontendUrl
    IN IF frontendUrl = <<>> THEN Invalid("Please enter a frontend URL to analyze")
       ELSE IF \E i \in 1..Len(withScheme) : withScheme[i] = " "
       THEN Invalid("Invalid frontend URL format")
       ELSE Ok(withScheme)

InsecureHost == <<"http://", "abc", ".supabase.co">>

PageResponse(content) == AssetResponse(TRUE, 2000, content)

\* What the network may answer to one detection: the outcomes of the six page fetches
\* and of the asset fetches.
DetectionRuns ==
    {[page |-> [k \in 1..(PROXY_COUNT + 1) |->
                  PageResponse(<<Fragment("bundledPair", InsecureHost, LongJwt)>>)],
      assets |-> <<>>],
     [page |-> [k \in 1..(PROXY_COUNT + 1) |->
                  IF k <= PROXY_COUNT THEN Aborted
                  ELSE PageResponse(<<Fragment("bundledPair", ProjectHost, LongJwt)>>)],
      assets |-> <<>>],
     [page |-> [k \in 1..(PROXY_COUNT + 1) |-> NetworkFailure], assets |-> <<>>],
     [page |-> [k \in 1..(PROXY_COUNT + 1) |->
                  PageResponse(<<Fragment("envUrl", ProjectHost, <<>>),
                                 Fragment("scriptSrc", <<"/", "assets/", "app", ".js">>, <<>>)>>)],
      assets |-> <<NetworkFailure>>]}

DetectInit ==
    /\ pc = "validateInputs"
    /\ locals = Locals0
    /\ requests = <<>>
    /\ currentReport = JNull
    /\ screen = Form
    /\ call = [fn |-> "runAudit", mode |-> "detect", frontendUrl |-> <<>>]
    /\ ret = Pending
    /\ detector = Detector0

\* app.js lines 125-126 in detect mode
AuditValidateDetectInputs ==
    /\ pc = "validateInputs"
    /\ \E text \in FrontendInputs :
          LET inputs == ValidateDetectInputs(text) IN
          IF inputs.k = "invalid"
          THEN Stop(inputs.message) /\ UNCHANGED call
          ELSE /\ pc' = "detectFromUrl"
               /\ call' = [call EXCEPT !.frontendUrl = inputs.v]
               /\ UNCHANGED <<locals, currentReport, screen>>
    /\ UNCHANGED <<requests, ret, detector>>

\* The fetches of one detection, in order: the page by its strategies, then the first
\* fetched assets through the relay (part_000 lines 113-119, 144-148, 589-596).  None
\* has an apikey or an Authorization header.
DetectionRequests(pageUrls, files, fetched) ==
    [k \in 1..Len(pageUrls) |-> Request("GET", pageUrls[k], JUndef, JUndef)]
    \o [i \in 1..fetched |-> Request("GET", ProxyUrl(1, files[i]), JUndef, JUndef)]

\* The message of the catch block at app.js lines 157-169.
DetectionErrorMessage(error, d) ==
    IF Truthy(d.projectUrl)
    THEN error.msg \o <<" However, we found the project URL. Please enter the anon key manually.">>
    ELSE error.msg

\* app.js lines 131-170: the detection, its requests, and what runAudit does with the
\* result.
AuditDetectFromUrl ==
    /\ pc = "detectFromUrl"
    /\ \E run \in DetectionRuns :
          LET url == NormalizeUrl(call.frontendUrl)
              acquired == FetchPageContent(url, run.page)
              detection == DetectFromUrl(call.frontendUrl, acquired.result, run.assets)
              files == IF IsThrow(acquired.result) THEN <<>>
                       ELSE FilesToFetch(acquired.result.v, url)
          IN /\ detector' = detection.detector
             /\ requests' = requests
                             \o DetectionRequests(acquired.requested, files, detection.fetched)
             /\ IF IsThrow(detection.result)
                THEN Stop(DetectionErrorMessage(detection.result, detection.detector))
                ELSE Continue([locals EXCEPT
                                 !.projectUrl = detection.result.v.f.projectUrl.s,
                                 !.anonKey = detection.result.v.f.anonKey],
                              At("decodeJWT", 0))
    /\ UNCHANGED <<call, ret>>

NextDetect ==
    \/ AuditValidateDetectInputs
    \/ AuditDetectFromUrl
    \/ AuditDecodeJWT
    \/ AuditFetchOpenAPISpec
    \/ AuditParseOpenAPISpec
    \/ AuditTestTableAccess
    \/ AuditFetchTableRowCount
    \/ AuditTestRPCFunction
    \/ AuditListStorageBuckets
    \/ AuditTestBucketAccess
    \/ AuditCheckRealtimeConfig
    \/ AuditQueryRLSPolicies
    \/ AuditGenerateReport
    \/ AuditNeverAnswered

SpecDetect == DetectInit /\ [][NextDetect]_vars

(***************************************************************************)
(* Two calls of SupabaseDetector.detectFromUrl that overlap.  The detector *)
(* is one object: detected, detectionDetails, projectUrl and anonKey are   *)
(* its fields (part_000 lines 7-12), shared by every call.  A call runs    *)
(* without interruption from one network await to the next.               *)
(***************************************************************************)
Callers == {1, 2}

OtherHost == <<"https://", "www", ".supabase.co">>

\* What one call is given: the front-end URL, the page fetchPageContent returns (or the
\* error it raises) and the outcomes of the asset fetches.
OverlapInputs ==
    {[frontendUrl |-> <<"shop.example">>,
      page |-> Ok(<<Fragment("envUrl", ProjectHost, <<>>),
                    Fragment("scriptSrc", <<"/", "assets/", "app", ".js">>, <<>>)>>),
      outcomes |-> <<KeyAsset>>],
     [frontendUrl |-> <<"blog.example">>,
      page |-> Ok(<<Fragment("bundledPair", OtherHost, ShortJwt)>>), outcomes |-> <<>>],
     [frontendUrl |-> <<"blog.example">>,
      page |-> Ok(<<Fragment("envUrl", OtherHost, <<>>),
                    Fragment("scriptSrc", <<"/", "assets/", "app", ".js">>, <<>>),
                    Fragment("scriptSrc", <<"/", "assets/", "lib", ".js">>, <<>>)>>),
      outcomes |-> <<NetworkFailure, AssetResponse(TRUE, 2000, <<Fragment("other", <<>>, <<>>)>>)>>],
     [frontendUrl |-> <<"news.example">>,
      page |-> Ok(<<Fragment("other", <<>>, <<>>)>>), outcomes |-> <<>>],
     [frontendUrl |-> <<"news.example">>, page |-> Throw(NOT_FETCHED_MESSAGE),
      outcomes |-> <<>>]}

Position(at, i, overlapped) == [at |-> at, i |-> i, overlapped |-> overlapped]

InProgress(c) == pc[c].at \in {"fetchPageContent", "fetchAsset"}

OverlapInit ==
    /\ call \in [Callers -> OverlapInputs]
    /\ ret = [c \in Callers |-> Pending]
    /\ pc = [c \in Callers |-> Position("idle", 0, FALSE)]
    /\ detector = Detector0
    /\ locals = Locals0
    /\ requests = <<>>
    /\ currentReport = JNull
    /\ screen = Form

\* Lines 20-34: the call resets the fields of the detector and awaits the page.
DetectFromUrlBegins(c) ==
    /\ pc[c].at = "idle"
    /\ detector' = Detector0
    /\ pc' = [d \in Callers |->
                IF d = c THEN Position("fetchPageContent", 0, \E e \in Callers : InProgress(e))
                ELSE [pc[d] EXCEPT !.overlapped = @ \/ InProgress(d)]]
    /\ UNCHANGED <<call, ret, locals, requests, currentReport, screen>>

\* The call c ends: it returns or throws result (lines 55-85).
DetectFromUrlEnds(c, result) ==
    /\ ret' = [ret EXCEPT ![c] = Returned(result)]
    /\ pc' = [pc EXCEPT ![c].at = "done"]

\* Lines 34-44 and 179-207: the page has come; the call scans it into the fields of the
\* detector and either ends or awaits the first asset.
PageContentArrives(c) ==
    /\ pc[c].at = "fetchPageContent"
    /\ LET page == call[c].page IN
       IF IsThrow(page) THEN DetectFromUrlEnds(c, page) /\ UNCHANGED detector
       ELSE IF page.v = <<>>
       THEN DetectFromUrlEnds(c, Throw(NO_CONTENT_MESSAGE)) /\ UNCHANGED detector
       ELSE LET scanned == ScanPage(detector, page.v)
                files == FilesToFetch(page.v, NormalizeUrl(call[c].frontendUrl))
            IN /\ detector' = scanned
               /\ IF NeedsEscalation(scanned) /\ files # <<>>
                  THEN pc' = [pc EXCEPT ![c].at = "fetchAsset", ![c].i = 1] /\ UNCHANGED ret
                  ELSE DetectFromUrlEnds(c, DetectionResult(scanned))
    /\ UNCHANGED <<call, locals, requests, currentReport, screen>>

\* Lines 583-620: the fetch of asset i has settled; the call scans a usable asset into
\* the fields of the detector, and ends or awaits the next asset.
AssetArrives(c) ==
    /\ pc[c].at = "fetchAsset"
    /\ LET i == pc[c].i
           files == FilesToFetch(call[c].page.v, NormalizeUrl(call[c].frontendUrl))
           outcome == call[c].outcomes[i]
           scanned == IF IsUsable(outcome) THEN ExtractCredentials(detector, outcome.content)
                      ELSE detector
           found == IsUsable(outcome) /\ HasBoth(scanned)
           after == IF found THEN Detected(scanned, "Found credentials in script")
                    ELSE scanned
       IN /\ detector' = after
          /\ IF found \/ i = Len(files)
             THEN DetectFromUrlEnds(c, DetectionResult(after))
             ELSE pc' = [pc EXCEPT ![c].i = i + 1] /\ UNCHANGED ret
    /\ UNCHANGED <<call, locals, requests, currentReport, screen>>

NextOverlap ==
    \E c \in Callers :
        \/ DetectFromUrlBegins(c)
        \/ PageContentArrives(c)
        \/ AssetArrives(c)

SpecOverlap == OverlapInit /\ [][NextOverlap]_vars

(***************************************************************************)
(* The pure functions, each applied to one input                           *)
(***************************************************************************)
FnInit ==
    /\ call \in FnCalls
    /\ ret = Pending
    /\ pc = "idle"
    /\ locals = Locals0
    /\ requests = <<>>
    /\ currentReport = JNull
    /\ screen = Form
    /\ detector = Detector0

CallDecodeJWT ==
    /\ call.fn = "decodeJWT"
    /\ ret = Pending
    /\ ret' = Returned(DecodeJWT(call.token, call.now))
    /\ UNCHANGED <<call, auditVars>>

CallParseOpenAPISpec ==
    /\ call.fn = "parseOpenAPISpec"
    /\ ret = Pending
    /\ ret' = Returned(ParseOpenAPISpec(call.spec))
    /\ UNCHANGED <<call, auditVars>>

CallAnalyzeTableSecurity ==
    /\ call.fn = "analyzeTableSecurity"
    /\ ret = Pending
    /\ ret' = Returned(AnalyzeTableSecurity(call.table, call.accessResults))
    /\ UNCHANGED <<call, auditVars>>

CallAnalyzeFunctionSecurity ==
    /\ call.fn = "analyzeFunctionSecurity"
    /\ ret = Pending
    /\ ret' = Returned(AnalyzeFunctionSecurity(call.func, call.testResults))
    /\ UNCHANGED <<call, auditVars>>

CallCalculateRiskScore ==
    /\ call.fn = "calculateRiskScore"
    /\ ret = Pending
    /\ ret' = Returned(CalculateRiskScore(call.issues))
    /\ UNCHANGED <<call, auditVars>>

CallGenerateRemediations ==
    /\ call.fn = "generateRemediations"
    /\ ret = Pending
    /\ ret' = Returned(GenerateRemediations(call.issues, call.tables))
    /\ UNCHANGED <<call, auditVars>>

CallGenerateReport ==
    /\ call.fn = "generateReport"
    /\ ret = Pending
    /\ ret' = Returned(GenerateReport(call.parsedData, call.tableAccessResults,
                                      call.functionTestResults, call.additionalData))
    /\ UNCHANGED <<call, auditVars>>

CallDetectFromUrl ==
    /\ call.fn = "detectFromUrl"
    /\ ret = Pending
    /\ ret' = Returned(DetectFromUrl(call.frontendUrl, call.page, call.outcomes))
    /\ UNCHANGED <<call, auditVars>>

CallTestTableAccess ==
    /\ call.fn = "testTableAccess"
    /\ ret = Pending
    /\ ret' = Returned(TestTableAccess(call.selectOutcome, call.optionsOutcome))
    /\ UNCHANGED <<call, auditVars>>

CallTestRPCFunction ==
    /\ call.fn = "testRPCFunction"
    /\ ret = Pending
    /\ ret' = Returned(RpcResult(call.outcome))
    /\ UNCHANGED <<call, auditVars>>

\* parseOpenAPISpec(spec) called twice on one document object.
CallParseTwice ==
    /\ call.fn = "parseTwice"
    /\ ret = Pending
    /\ ret' = Returned([first |-> ParseOpenAPISpec(call.spec),
                        document |-> DocumentAfterParse(call.spec),
                        second |-> ParseOpenAPISpec(DocumentAfterParse(call.spec))])
    /\ UNCHANGED <<call, auditVars>>

CallFetchPageContent ==
    /\ call.fn = "fetchPageContent"
    /\ ret = Pending
    /\ ret' = Returned(FetchPageContent(call.url, call.outcomes))
    /\ UNCHANGED <<call, auditVars>>

FnNext ==
    \/ CallDecodeJWT
    \/ CallParseOpenAPISpec
    \/ CallAnalyzeTableSecurity
    \/ CallAnalyzeFunctionSecurity
    \/ CallCalculateRiskScore
    \/ CallGenerateRemediations
    \/ CallGenerateReport
    \/ CallDetectFromUrl
    \/ CallTestTableAccess
    \/ CallTestRPCFunction
    \/ CallParseTwice
    \/ CallFetchPageContent

SpecFn == FnInit /\ [][FnNext]_vars

(***************************************************************************)
(* Properties                                                              *)
(***************************************************************************)
Returned0(fn) == call.fn = fn /\ ret.k = "returned"

\* The url addresses the endpoint /rest/v1/{table}, with or without a query.
IsTableEndpoint(url, tableName) ==
    LET endpoint == RestUrl(PROJECT_URL, tableName) IN
    /\ StartsWith(url, endpoint)
    /\ \/ Len(url) = Len(endpoint)
       \/ url[Len(endpoint) + 1] = "?"

IsRpcInvocation(r) ==
    /\ StartsWith(r.url, RestUrl(PROJECT_URL, <<"rpc", "/">>))
    /\ Len(r.url) > Len(RestUrl(PROJECT_URL, <<"rpc", "/">>))
    /\ r.body = EmptyBody

IsStorageListProbe(r) ==
    StartsWith(r.url, StorageUrl(PROJECT_URL, <<"object", "/", "list", "/">>))

KnownTables == IF locals.parsedData = JUndef THEN {} ELSE TableNames(locals.parsedData)

RequestsTo(tableName) ==
    {i \in 1..Len(requests) : IsTableEndpoint(requests[i].url, tableName)}

Dots(s) == Cardinality({i \in 1..Len(s) : s[i] = "."})

ThreeSegments(token) == token.k = "str" /\ Dots(token.s) = 2

\* The text between separator number n - 1 and separator number n.
Segment(s, n) ==
    LET dotAt == [m \in 0..(Dots(s) + 1) |->
                    IF m = 0 THEN 0
                    ELSE IF m = Dots(s) + 1 THEN Len(s) + 1
                    ELSE CHOOSE i \in 1..Len(s) :
                            s[i] = "." /\ Cardinality({j \in 1..i : s[j] = "."}) = m]
    IN SubSeq(s, dotAt[n - 1] + 1, dotAt[n] - 1)

Decodable(token) ==
    /\ ThreeSegments(token)
    /\ ~IsThrow(ParseSegment(Segment(token.s, 1)))
    /\ ~IsThrow(ParseSegment(Segment(token.s, 2)))

PayloadOf(token) == ParseSegment(Segment(token.s, 2))

\* C2: for every token of exactly three segments whose first two segments decode and
\* parse (to any JSON value), decodeJWT returns valid = true and no error, with the role
\* of the payload when the payload has a role claim and "anon" when it has none.
C2_DecodableTokenIsValid ==
    (Returned0("decodeJWT") /\ Decodable(call.token)) =>
        /\ ret.v.valid
        /\ ret.v.error = JNull
        /\ ret.v.role = IF PayloadOf(call.token).k = "obj"
                           /\ "role" \in DOMAIN PayloadOf(call.token).f
                        THEN PayloadOf(call.token).f.role
                        ELSE JStr(<<"anon">>)

\* C3: for every input that is not a string of exactly three segments, decodeJWT
\* returns a result (it does not throw) with valid = false and a non-empty error.
C3_MalformedTokenIsRejected ==
    (Returned0("decodeJWT") /\ ~ThreeSegments(call.token)) =>
        /\ DOMAIN ret.v = DOMAIN DecodeResult0
        /\ ret.v.valid = FALSE
        /\ ret.v.error.k = "str"
        /\ ret.v.error.s # <<>>

\* A token of four segments whose first two segments decode was rejected.
C3_Witness ==
    /\ Returned0("decodeJWT")
    /\ call.token.k = "str"
    /\ Dots(call.token.s) = 3
    /\ ~IsThrow(ParseSegment(Segment(call.token.s, 1)))
    /\ ~IsThrow(ParseSegment(Segment(call.token.s, 2)))
    /\ ret.v.valid = FALSE
    /\ ret.v.error = JStr(<<"Invalid JWT format">>)

\* The number of issues of one severity in a list.
NumberOf(issues, severity) ==
    Cardinality({i \in 1..Len(issues) : issues[i].severity = severity})

WeightedSum(issues) ==
    25 * NumberOf(issues, "critical") + 15 * NumberOf(issues, "high")
    + 8 * NumberOf(issues, "medium") + 3 * NumberOf(issues, "low")

\* C4: calculateRiskScore returns the level of the precedence rule: critical if there
\* is a critical issue or the score is at least 75, else high if there is a high issue
\* or the score is at least 50, else medium if there is a medium issue or the score is
\* at least 25, else low; one critical issue makes the level critical at any score.
C4_RiskLevelPrecedence ==
    Returned0("calculateRiskScore") =>
        /\ ret.v.breakdown = [s \in {"critical", "high", "medium", "low"} |->
                                 NumberOf(call.issues, s)]
        /\ ret.v.riskLevel =
              IF NumberOf(call.issues, "critical") > 0 \/ ret.v.score >= 75 THEN "critical"
              ELSE IF NumberOf(call.issues, "high") > 0 \/ ret.v.score >= 50 THEN "high"
              ELSE IF NumberOf(call.issues, "medium") > 0 \/ ret.v.score >= 25 THEN "medium"
              ELSE "low"
        /\ NumberOf(call.issues, "critical") > 0 => ret.v.riskLevel = "critical"

\* One critical issue among few others: the score is below 75, the level is critical.
C4_Witness ==
    /\ Returned0("calculateRiskScore")
    /\ NumberOf(call.issues, "critical") = 1
    /\ ret.v.score < 75
    /\ ret.v.riskLevel = "critical"

\* C5: the score is min(100, 25*critical + 15*high + 8*medium + 3*low), it lies in
\* 0..100, and one more issue of any severity never lowers it.
C5_ScoreFormula ==
    Returned0("calculateRiskScore") =>
        /\ ret.v.score = IF WeightedSum(call.issues) > 100 THEN 100
                         ELSE WeightedSum(call.issues)
        /\ ret.v.score \in 0..100
        /\ \A s \in {"critical", "high", "medium", "low"} :
              CalculateRiskScore(Append(call.issues, SeverityIssue(s))).score >= ret.v.score

\* A list whose weighted sum exceeds 100 was scored 100.
C5_Witness ==
    /\ Returned0("calculateRiskScore")
    /\ WeightedSum(call.issues) > 100
    /\ ret.v.score = 100

IssuesOfType(issues, type) == {i \in 1..Len(issues) : issues[i].type = type}

WriteFacets ==
    {[facet |-> "insert", type |-> "unrestricted_insert", severity |-> "high"],
     [facet |-> "update", type |-> "unrestricted_update", severity |-> "high"],
     [facet |-> "delete", type |-> "unrestricted_delete", severity |-> "critical"]}

FacetIs(accessResults, facet, value) ==
    accessResults.k = "obj" /\ facet \in DOMAIN accessResults.f
    /\ accessResults.f[facet] = value

\* C6: analyzeTableSecurity emits each write issue (insert and update high, delete
\* critical) once when the facet of the access result is true and not at all when it
\* is false or unknown; a table with insert = true, update = false, delete = false
\* yields exactly one unrestricted_insert issue and no update or delete issue.
C6_WriteIssuesFollowFacets ==
    (Returned0("analyzeTableSecurity") /\ ret.v.k = "ok") =>
        /\ \A w \in WriteFacets :
              /\ Cardinality(IssuesOfType(ret.v.v, w.type)) =
                    IF FacetIs(call.accessResults, w.facet, JBool(TRUE)) THEN 1 ELSE 0
              /\ \A i \in IssuesOfType(ret.v.v, w.type) :
                    ret.v.v[i].severity = w.severity /\ ret.v.v[i].table = call.table.name
        /\ (/\ FacetIs(call.accessResults, "insert", JBool(TRUE))
            /\ FacetIs(call.accessResults, "update", JBool(FALSE))
            /\ FacetIs(call.accessResults, "delete", JBool(FALSE)))
           => /\ Cardinality(IssuesOfType(ret.v.v, "unrestricted_insert")) = 1
              /\ IssuesOfType(ret.v.v, "unrestricted_update") = {}
              /\ IssuesOfType(ret.v.v, "unrestricted_delete") = {}

\* An insert-only table was analysed and got its one unrestricted_insert issue.
C6_Witness ==
    /\ Returned0("analyzeTableSecurity")
    /\ FacetIs(call.accessResults, "insert", JBool(TRUE))
    /\ FacetIs(call.accessResults, "update", JBool(FALSE))
    /\ FacetIs(call.accessResults, "delete", JBool(FALSE))
    /\ ret.v.k = "ok"
    /\ Cardinality(IssuesOfType(ret.v.v, "unrestricted_insert")) = 1

\* select, insert, update and delete all allowed, and 50 rows.
OpenWith50Rows(access) ==
    /\ FacetIs(access, "select", JBool(TRUE))
    /\ FacetIs(access, "insert", JBool(TRUE))
    /\ FacetIs(access, "update", JBool(TRUE))
    /\ FacetIs(access, "delete", JBool(TRUE))
    /\ FacetIs(access, "rowCount", JNum(50))

OpenTables(parsedData, tableAccessResults) ==
    {name \in TableNames(parsedData) :
        name \in DOMAIN tableAccessResults /\ OpenWith50Rows(tableAccessResults[name])}

HasIssue(issues, type, severity, tableName) ==
    \E i \in IssuesOfType(issues, type) :
        issues[i].severity = severity /\ issues[i].table = tableName

\* C7: a report generated for a catalog with a table whose select, insert, update and
\* delete are all allowed and whose rowCount is 50 has the issues unrestricted_insert
\* (high), unrestricted_update (high) and unrestricted_delete (critical) for that
\* table, no large_exposure issue for it, and the risk level critical.
C7_OpenTableReport ==
    (Returned0("generateReport") /\ ret.v.k = "ok") =>
        \A name \in OpenTables(call.parsedData, call.tableAccessResults) :
            /\ HasIssue(ret.v.v.issues, "unrestricted_insert", "high", name)
            /\ HasIssue(ret.v.v.issues, "unrestricted_update", "high", name)
            /\ HasIssue(ret.v.v.issues, "unrestricted_delete", "critical", name)
            /\ \A i \in IssuesOfType(ret.v.v.issues, "large_exposure") :
                  ret.v.v.issues[i].table # name
            /\ ret.v.v.summary.riskScore.riskLevel = "critical"

\* A report was generated for a catalog with such a table.
C7_Witness ==
    /\ Returned0("generateReport")
    /\ ret.v.k = "ok"
    /\ OpenTables(call.parsedData, call.tableAccessResults) # {}
    /\ ret.v.v.summary.riskScore.riskLevel = "critical"

\* The code holds the directive ALTER TABLE {table} ENABLE ROW LEVEL SECURITY;
EnablesRlsOn(code, tableName) ==
    \E i \in 1..Len(code) :
        /\ i + Len(tableName) + 1 <= Len(code)
        /\ SubSeq(code, i, i + Len(tableName) + 1) =
              <<"ALTER TABLE ">> \o tableName \o <<" ENABLE ROW LEVEL SECURITY;">>

TablesWithWriteIssue(issues) ==
    {issues[i].table : i \in {j \in 1..Len(issues) : issues[j].type \in WRITE_ISSUE_TYPES}}

TablesOfIssues(issues) ==
    {issues[i].table : i \in {j \in 1..Len(issues) : "table" \in DOMAIN issues[j]}}

\* C8: generateRemediations returns, for every table with a write issue in the issue
\* list, a remediation whose code enables row level security on exactly that table,
\* and no such remediation for a table without a write issue.
C8_WriteIssueTablesGetEnableRls ==
    Returned0("generateRemediations") =>
        /\ ret.v.k = "ok"
        /\ \A name \in TablesOfIssues(call.issues) :
              (name \in TablesWithWriteIssue(call.issues))
              <=> \E i \in 1..Len(ret.v.v) :
                     "code" \in DOMAIN ret.v.v[i] /\ EnablesRlsOn(ret.v.v[i].code, name)

\* C9: an audit of a project whose API description has no paths ends with a report
\* that has exactly two issues, both low, the score 6 and the risk level low.
C9_NoPathsReport ==
    (pc = "done" /\ locals.spec = DocNoPaths) =>
        /\ currentReport # JNull
        /\ Len(currentReport.issues) = 2
        /\ \A i \in 1..Len(currentReport.issues) : currentReport.issues[i].severity = "low"
        /\ currentReport.summary.riskScore.score = 6
        /\ currentReport.summary.riskScore.riskLevel = "low"

\* requiresAuth === false in the probe result
ReachableWithoutAuth(testResults) == FacetIs(testResults, "requiresAuth", JBool(FALSE))

\* C10: analyzeFunctionSecurity emits a sensitive_function issue (medium) for a
\* function if and only if its name matches the verb pattern and its probe result has
\* requiresAuth = false; a probe answered 401 or 403, or a failed probe, yields none.
C10_SensitiveFunctionIffReachable ==
    Returned0("analyzeFunctionSecurity") =>
        /\ (IssuesOfType(ret.v, "sensitive_function") # {})
           <=> (/\ FirstMatch(SENSITIVE_OPS, call.func.name) > 0
                /\ ReachableWithoutAuth(call.testResults))
        /\ \A i \in IssuesOfType(ret.v, "sensitive_function") : ret.v[i].severity = "medium"

\* Exactly one of the project URL and the anon key was found.
FoundOne(d) == Truthy(d.projectUrl) # Truthy(d.anonKey)

\* C11: when discovery finds exactly one of the project URL and the anon key,
\* detectFromUrl returns a result value in which the found field is set and the other
\* is absent; it does not raise an error.
C11_PartialDiscoveryIsReturned ==
    (Returned0("detectFromUrl") /\ FoundOne(ret.v.detector)) =>
        /\ ret.v.result.k = "ok"
        /\ GetProp(ret.v.result.v, "projectUrl") = ret.v.detector.projectUrl
        /\ GetProp(ret.v.result.v, "anonKey") = ret.v.detector.anonKey

\* The capability probe gave no signal: the request failed, or the response carries
\* neither an Allow nor an Access-Control-Allow-Methods header.
NoCapabilitySignal(outcome) ==
    outcome.k = "failed" \/ (outcome.allow = JNull /\ outcome.acam = JNull)

\* C12: whenever the capability probe gives no signal for a table, the insert, update
\* and delete facets of its access result all remain unknown.
C12_NoSignalLeavesUnknown ==
    (Returned0("testTableAccess") /\ NoCapabilitySignal(call.optionsOutcome)) =>
        \A w \in WriteFacets : FacetIs(ret.v, w.facet, JStr(<<"unknown">>))

\* C13: in every access result of table probing, rowCount is set (not null) only if
\* select is true, whatever the status and the Content-Range header of the select
\* probe's response are.
C13_RowCountOnlyIfSelect ==
    Returned0("testTableAccess") =>
        (GetProp(ret.v, "rowCount") # JNull => FacetIs(ret.v, "select", JBool(TRUE)))

\* C14: the function probe maps status 401 or 403 to requiresAuth = true, status 404 to
\* accessible = false with requiresAuth = unknown, any other status to accessible = true
\* with requiresAuth = false, and a network failure to requiresAuth = unknown with the
\* error recorded; accessible = false occurs for the not-found status only.
C14_FunctionProbeMapping ==
    Returned0("testRPCFunction") =>
        /\ call.outcome.k = "failed" =>
              /\ FacetIs(ret.v, "requiresAuth", JStr(<<"unknown">>))
              /\ FacetIs(ret.v, "error", JStr(call.outcome.msg))
        /\ call.outcome.k = "response" =>
              /\ call.outcome.status \in {401, 403} =>
                    FacetIs(ret.v, "requiresAuth", JBool(TRUE))
              /\ call.outcome.status = 404 =>
                    /\ FacetIs(ret.v, "accessible", JBool(FALSE))
                    /\ FacetIs(ret.v, "requiresAuth", JStr(<<"unknown">>))
              /\ call.outcome.status \notin {401, 403, 404} =>
                    /\ FacetIs(ret.v, "accessible", JBool(TRUE))
                    /\ FacetIs(ret.v, "requiresAuth", JBool(FALSE))
        /\ FacetIs(ret.v, "accessible", JBool(FALSE))
              <=> (call.outcome.k = "response" /\ call.outcome.status = 404)

C14_Witness ==
    /\ Returned0("testRPCFunction")
    /\ call.outcome.k = "failed"
    /\ FacetIs(ret.v, "requiresAuth", JStr(<<"unknown">>))
    /\ FacetIs(ret.v, "accessible", JBool(TRUE))

Sent(request) == \E i \in 1..Len(requests) : requests[i] = request

\* The audit got past ingestion: it has a catalog with at least one entity.
HasCatalog == locals.parsedData # JUndef

\* C15: whatever probe requests fail, an audit that has a catalog still sends both
\* sub-probes of every catalog table and the probe of every catalog function, records a
\* result for each of them, and ends with a report.
C15_FailuresNeverAbort ==
    (pc = "done" /\ HasCatalog) =>
        /\ currentReport # JNull
        /\ screen = RenderReport(currentReport)
        /\ \A i \in 1..Len(locals.parsedData.tables) :
              LET name == locals.parsedData.tables[i].name IN
              /\ Sent(SelectRequest(locals.projectUrl, locals.anonKey, name))
              /\ Sent(CapabilityRequest(locals.projectUrl, locals.anonKey, name))
              /\ name \in DOMAIN locals.tableAccessResults
              /\ currentReport.tables[i].access = locals.tableAccessResults[name]
        /\ \A i \in 1..Len(locals.parsedData.functions) :
              LET name == locals.parsedData.functions[i].name IN
              /\ Sent(RpcRequest(locals.projectUrl, locals.anonKey, name))
              /\ name \in DOMAIN locals.functionTestResults

\* An audit of two tables and a function in which both sub-probes of the first table
\* and the function probe failed, and which ended with a report.
C15_Witness ==
    /\ pc = "done" /\ HasCatalog /\ currentReport # JNull
    /\ Len(locals.parsedData.tables) = 2
    /\ LET first == locals.tableAccessResults[locals.parsedData.tables[1].name] IN
       /\ FacetIs(first, "select", JBool(FALSE))
       /\ GetProp(first, "error") # JNull
    /\ FacetIs(locals.tableAccessResults[locals.parsedData.tables[2].name],
               "select", JBool(TRUE))
    /\ \E name \in DOMAIN locals.functionTestResults :
          GetProp(locals.functionTestResults[name], "error") # JNull

\* C16: if an ingestion step fails (the form does not validate, the API description
\* cannot be fetched, or the credential does not decode), no probe request is sent, an
\* error message is shown at the end, and no report is produced.
DecodeFailed == locals.jwtInfo # JUndef /\ ~locals.jwtInfo.f.valid

ValidationFailed == pc = "done" /\ locals.anonKey = JUndef

FetchFailed == pc = "done" /\ locals.anonKey # JUndef /\ locals.spec = JUndef

NoProbeSent ==
    \A i \in 1..Len(requests) : requests[i] = SpecRequest(locals.projectUrl, locals.anonKey)

C16_IngestionFailureStopsAudit ==
    (ValidationFailed \/ FetchFailed \/ DecodeFailed)
        => /\ NoProbeSent
           /\ currentReport = JNull
           /\ screen.k # "report"
           /\ pc = "done" => screen.k = "error"

\* The two failures that do stop the audit.
C16_ValidationOrFetchFailureStops ==
    (ValidationFailed \/ FetchFailed)
        => /\ NoProbeSent
           /\ currentReport = JNull
           /\ screen.k = "error"

\* C17: generateReport returns a report, whatever the catalog and the probe-result maps
\* are (also when a map has no entry for a table or a function of the catalog), and the
\* summary of the report has its five fields.
C17_ReportNeverThrows ==
    Returned0("generateReport") =>
        /\ ret.v.k = "ok"
        /\ {"totalTables", "totalFunctions", "totalIssues", "totalPublicRecords", "riskScore"}
               \subseteq DOMAIN ret.v.v.summary

\* With an entry for every table of the catalog, and no table named like a member of
\* Object.prototype, the report is produced.
C17_ReportWithAllEntries ==
    (/\ Returned0("generateReport")
     /\ TableNames(call.parsedData) \subseteq DOMAIN call.tableAccessResults
     /\ \A name \in TableNames(call.parsedData) : name \notin ObjectPrototypeKeys)
        => ret.v.k = "ok"

\* C18: parseOpenAPISpec returns a catalog for every input document, whatever the shape
\* of the document and of the entries of its paths.
C18_ParseNeverThrows == Returned0("parseOpenAPISpec") => ret.v.k = "ok"

\* A description whose paths all map to objects with operations that are objects parses.
WellShaped(spec) ==
    Truthy(GetProp(spec, "paths")) =>
        \A i \in 1..Len(GetProp(spec, "paths").e) :
            LET methods == GetProp(spec, "paths").e[i].val IN
            /\ methods.k = "obj"
            /\ \A j \in 1..Len(methods.e) : methods.e[j].val.k = "obj"

C18_WellShapedParses ==
    (Returned0("parseOpenAPISpec") /\ WellShaped(call.spec)) => ret.v.k = "ok"

Distinct(names) == \A i, j \in 1..Len(names) : names[i] = names[j] => i = j

NamesOf(entities) == [i \in 1..Len(entities) |-> entities[i].name]

\* C19: in every catalog parseOpenAPISpec returns, no two tables have the same name and
\* no two functions have the same name.
C19_NamesAreDistinct ==
    (Returned0("parseOpenAPISpec") /\ ret.v.k = "ok") =>
        /\ Distinct(NamesOf(ret.v.v.tables))
        /\ Distinct(NamesOf(ret.v.v.functions))

\* The function names of a catalog are distinct: they are the keys of the paths without
\* the prefix /rpc/.
C19_FunctionNamesAreDistinct ==
    (Returned0("parseOpenAPISpec") /\ ret.v.k = "ok") => Distinct(NamesOf(ret.v.v.functions))

NotAuthRequired(parsedData, functionTestResults) ==
    {i \in 1..Len(parsedData.functions) :
        GetProp(MapGet(functionTestResults, parsedData.functions[i].name), "requiresAuth")
            # JBool(TRUE)}

\* C21: every report has exactly one issue of type many_tables and exactly one of type
\* many_functions, both of severity low; so it has at least 2 issues and a score of at
\* least 6; the count of the many_functions issue is the number of functions whose
\* probe did not yield requiresAuth = true.
C21_AlwaysIssues ==
    (Returned0("generateReport") /\ ret.v.k = "ok") =>
        LET issues == ret.v.v.issues IN
        /\ Cardinality(IssuesOfType(issues, "many_tables")) = 1
        /\ Cardinality(IssuesOfType(issues, "many_functions")) = 1
        /\ \A i \in IssuesOfType(issues, "many_tables") \cup IssuesOfType(issues, "many_functions") :
              issues[i].severity = "low"
        /\ \A i \in IssuesOfType(issues, "many_functions") :
              issues[i].count = Cardinality(NotAuthRequired(call.parsedData,
                                                            call.functionTestResults))
        /\ ret.v.v.summary.totalIssues >= 2
        /\ ret.v.v.summary.riskScore.score >= 6

\* A report for a catalog with functions whose probes found nothing: it has the two
\* issues only, with counts 0.
C21_Witness ==
    /\ Returned0("generateReport")
    /\ ret.v.k = "ok"
    /\ call.parsedData.functions # <<>>
    /\ Len(ret.v.v.issues) = 2
    /\ \A i \in 1..2 : ret.v.v.issues[i].count = 0
    /\ ret.v.v.summary.riskScore.score = 6

\* C30: in every report of an audit, summary.totalPublicRecords equals
\* dataExposure.totalRows (the sum of the row counts of the report's table access
\* results).
C30_TotalsAgree ==
    currentReport # JNull =>
        currentReport.summary.totalPublicRecords = currentReport.dataExposure.totalRows

\* The totals agree in the reports of audits in which every counted table was counted
\* by the row-count step, or none was.
CountedByStep(l, name) == name \in DOMAIN l.tableRowCounts

HasCount(l, name) == GetProp(MapGet(l.tableAccessResults, name), "rowCount").k = "num"

C30_TotalsAgreeWhenCountedAlike ==
    (/\ currentReport # JNull
     /\ \/ \A name \in KnownTables : HasCount(locals, name) => CountedByStep(locals, name)
        \/ locals.totalPublicRecords = 0)
        => currentReport.summary.totalPublicRecords = currentReport.dataExposure.totalRows

\* The names a description declares as query parameters of the operations of a table.
DeclaredParams(spec, tableName) ==
    LET paths == GetProp(spec, "paths").e IN
    {p.name : p \in UNION {UNION {SeqRange(GetProp(paths[i].val.e[j].val, "parameters").v) :
                                      j \in {x \in 1..Len(paths[i].val.e) :
                                                Truthy(GetProp(paths[i].val.e[x].val,
                                                               "parameters"))}} :
                              i \in {x \in 1..Len(paths) :
                                        /\ TrimSlashes(paths[x].key) = tableName
                                        /\ paths[x].val.k = "obj"}}}

\* The properties the definitions section of a description gives for a table.
DefinedProperties(spec, tableName) ==
    LET def == OptProp(GetProp(spec, "definitions"), tableName) IN
    IF Truthy(def) /\ Truthy(GetProp(def, "properties"))
    THEN SeqRange(GetProp(def, "properties").e) ELSE {}

\* C29: in every parsed table each column name occurs once, and a column declared both
\* as a query parameter of the table and in the definitions section under the table's
\* name has the type and the format the definitions section gives.
C29_ColumnsMergeWithDefinitions ==
    (Returned0("parseOpenAPISpec") /\ ret.v.k = "ok") =>
        \A t \in SeqRange(ret.v.v.tables) :
            /\ Distinct(NamesOf(t.columns))
            /\ \A c \in SeqRange(t.columns) :
                  \A d \in DefinedProperties(call.spec, t.name) :
                      (d.key = c.name /\ c.name \in DeclaredParams(call.spec, t.name))
                          => /\ c.type = OrElse(GetProp(d.val, "type"), JStr(<<"unknown">>))
                             /\ c.format = OrElse(GetProp(d.val, "format"), JNull)

\* The column names of every parsed table are distinct.
C29_ColumnNamesAreDistinct ==
    (Returned0("parseOpenAPISpec") /\ ret.v.k = "ok") =>
        \A t \in SeqRange(ret.v.v.tables) : Distinct(NamesOf(t.columns))

\* Every table and every function of the catalog has a probe result or a recorded error.
EntitiesProbed ==
    /\ locals.parsedData # JUndef
    /\ TableNames(locals.parsedData) \subseteq DOMAIN locals.tableAccessResults
    /\ FunctionNames(locals.parsedData) \subseteq DOMAIN locals.functionTestResults

\* Every bucket the listing returned has an access result.
BucketsProbed ==
    \A i \in 1..Len(locals.bucketList) :
        locals.bucketList[i].k = "obj" =>
            \E j \in 1..Len(locals.buckets) :
                GetProp(locals.buckets[j], "id") = GetProp(locals.bucketList[i], "id")

ReportBegun == pc = "generateReport" \/ currentReport # JNull

\* C24: report generation begins only after every table, every function and every listed
\* bucket was probed; it runs once, and no request is sent after it has begun.
C24_ReportAfterAllProbes ==
    [][/\ ReportBegun' => (EntitiesProbed' /\ BucketsProbed')
       /\ ReportBegun => (requests' = requests /\ pc' = "done")]_vars

\* The same without the buckets: report generation begins only after every table and
\* every function was probed, runs once, and no request follows it.
C24_ReportAfterEntityProbes ==
    [][/\ ReportBegun' => EntitiesProbed'
       /\ ReportBegun => (requests' = requests /\ pc' = "done")]_vars

\* C25: every audit run eventually ends, with a rendered report or a shown error.
C25_AuditEnds == <>(pc = "done" /\ screen.k \in {"report", "error"})

\* Strategy k of an acquisition came to content: a relay answered ok with a text longer
\* than 100 characters, or the direct attempt answered ok.
Succeeded(outcomes, k) ==
    /\ outcomes[k].k = "response"
    /\ outcomes[k].ok
    /\ k <= PROXY_COUNT => outcomes[k].length > MIN_CONTENT_LENGTH

\* C27: content acquisition requests the five relays and then the page itself, in that
\* order, each only after the one before it did not succeed; it returns the content of
\* the first strategy that succeeds and requests nothing after it; it raises only after
\* all six were tried.
C27_StrategiesInOrder ==
    Returned0("fetchPageContent") =>
        LET n == Len(ret.v.requested) IN
        /\ n \in 1..PROXY_COUNT + 1
        /\ \A k \in 1..n : ret.v.requested[k] = StrategyUrl(k, call.url)
        /\ \A k \in 1..(n - 1) : ~Succeeded(call.outcomes, k)
        /\ IF ret.v.result.k = "ok"
           THEN Succeeded(call.outcomes, n) /\ ret.v.result.v = call.outcomes[n].content
           ELSE n = PROXY_COUNT + 1 /\ ~Succeeded(call.outcomes, n)

\* An acquisition whose first two relays did not succeed returned the content of the
\* third, although later strategies would have succeeded too.
C27_Witness ==
    /\ Returned0("fetchPageContent")
    /\ Len(ret.v.requested) = 3
    /\ ret.v.result = Ok(ClientPage)
    /\ call.outcomes[1] = Aborted
    /\ Succeeded(call.outcomes, 4)

\* The detector fields after the first n assets, each scanned when its response is ok
\* and its text is longer than minLength characters.
RECURSIVE ScanAssets(_, _, _, _)
ScanAssets(d, outcomes, n, minLength) ==
    IF n = 0 THEN d
    ELSE LET before == ScanAssets(d, outcomes, n - 1, minLength) IN
         IF outcomes[n].k = "response" /\ outcomes[n].ok /\ outcomes[n].length > minLength
         THEN ExtractCredentials(before, outcomes[n].content) ELSE before

\* The escalation of one detectFromUrl call that scans the assets longer than minLength.
EscalationSteps(minLength) ==
    (Returned0("detectFromUrl") /\ call.page.k = "ok" /\ call.page.v # <<>>) =>
        LET scanned == ScanPage(Detector0, call.page.v)
            files == JsFiles(call.page.v, NormalizeUrl(call.frontendUrl), 1)
            n == ret.v.fetched
            found == ScanAssets(scanned, call.outcomes, n, minLength)
        IN /\ n > 0 => NeedsEscalation(scanned)
           /\ n <= MAX_JS_FILES /\ n <= Len(files)
           /\ \A j \in 0..(n - 1) : ~HasBoth(ScanAssets(scanned, call.outcomes, j, minLength))
           /\ (NeedsEscalation(scanned) /\ n < Min(MAX_JS_FILES, Len(files))) => HasBoth(found)
           /\ ret.v.detector.projectUrl = found.projectUrl
           /\ ret.v.detector.anonKey = found.anonKey

\* C28: escalation runs only when the backend was detected and the project URL or the
\* key is still missing after the scan of the page; it fetches at most 10 script assets,
\* scans each fetched asset, fetches no asset once both are set, and goes on after an
\* asset whose fetch failed or timed out.
C28_EscalationScansEveryAsset == EscalationSteps(0)

\* C28 as the code has it: an asset is scanned when its response is ok and its text is
\* longer than 100 characters; a shorter one is passed over like a failed fetch.
C28_EscalationScansUsableAssets == EscalationSteps(MIN_CONTENT_LENGTH)

\* A page with more than ten scripts: the first asset failed, ten assets were fetched
\* and the tenth gave the key.
C28_Witness ==
    /\ Returned0("detectFromUrl")
    /\ call.page.k = "ok"
    /\ Len(JsFiles(call.page.v, NormalizeUrl(call.frontendUrl), 1)) > MAX_JS_FILES
    /\ ret.v.fetched = MAX_JS_FILES
    /\ call.outcomes[1].k = "failed"
    /\ ret.v.result.k = "ok"

\* The requests runAudit has sent to the project it audits.
IsProjectRequest(r) == locals.projectUrl # <<>> /\ StartsWith(r.url, locals.projectUrl)

\* C22: every request of an audit to the project goes to an https URL, in manual mode
\* and in detect mode alike; a project URL of another scheme is rejected before any
\* request is sent.
C22_ProjectRequestsUseHttps ==
    \A i \in 1..Len(requests) :
        IsProjectRequest(requests[i]) => requests[i].url[1] = "https://"

\* C22 in manual mode, where validateInputs checks the scheme of the project URL.
C22_ManualRequestsUseHttps ==
    call.fn = "runAudit" => C22_ProjectRequestsUseHttps

\* The relays and the front-end origin of a detection.
RELAY_HOSTS ==
    {"api.allorigins.win", "corsproxy.io", "api.codetabs.com", "cors-anywhere.herokuapp.com",
     "thingproxy.freeboard.io"}

Alone(c) == DetectFromUrl(call[c].frontendUrl, call[c].page, call[c].outcomes).result

\* C26: discovery keeps no state shared between calls: each of two overlapping
\* detectFromUrl calls returns the result derived from its own page and assets, and the
\* reset of the later call erases nothing the earlier call has found.
C26_CallsAreIsolated ==
    \A c \in Callers : ret[c].k = "returned" => ret[c].v = Alone(c)

\* C26 for a call that did not overlap with the other one.
C26_SequentialCallsAgree ==
    \A c \in Callers : (ret[c].k = "returned" /\ ~pc[c].overlapped) => ret[c].v = Alone(c)

====
